---- MODULE Spec2Model ----
(***************************************************************************)
(* StatementGuard: the single-pass PTSTMT statement validator.             *)
(*                                                                         *)
(* Two implementations of the same scan live in the repository: the        *)
(* streaming one (bridge.py, process_validation_realtime) and the          *)
(* class-based one (src/core/validation.py, PTSTMTValidator.process_file). *)
(* Both are modelled; they read the same file line by line.                *)
(*                                                                         *)
(* Representation.  A Python str is a tuple of characters (one-character   *)
(* TLA+ strings).  A line of the file is sparse fixed-width text:          *)
(* [len |-> its length, ch |-> the characters at the positions that are    *)
(* not blank]; every position of 1..len outside DOMAIN ch holds a space.   *)
(* A Python dict is a sequence of [k, v] entries in insertion order.       *)
(* None is <<>> and a present value v is <<v>>.  An operation that may     *)
(* raise returns [raises |-> BOOLEAN, value |-> ...].                      *)
(***************************************************************************)
EXTENDS Integers, Sequences, FiniteSets, TLC

----------------------------------------------------------------------------
(* Characters and Python string primitives *)

Digits == {"0", "1", "2", "3", "4", "5", "6", "7", "8", "9"}

\* The Latin-1 superscript digits (0xB2, 0xB3, 0xB9): str.isdigit() accepts
\* them, int() does not.
SuperDigits == {"^2", "^3", "^1"}

Whitespace == {" ", "\n", "\t", "\r"}

DigitVal(c) ==
  CASE c = "0" -> 0 [] c = "1" -> 1 [] c = "2" -> 2 [] c = "3" -> 3
    [] c = "4" -> 4 [] c = "5" -> 5 [] c = "6" -> 6 [] c = "7" -> 7
    [] c = "8" -> 8 [] c = "9" -> 9

DigitChar(n) ==
  CASE n = 0 -> "0" [] n = 1 -> "1" [] n = 2 -> "2" [] n = 3 -> "3"
    [] n = 4 -> "4" [] n = 5 -> "5" [] n = 6 -> "6" [] n = 7 -> "7"
    [] n = 8 -> "8" [] n = 9 -> "9"

Min(a, b) == IF a <= b THEN a ELSE b

Max(a, b) == IF a >= b THEN a ELSE b

Last(s) == s[Len(s)]

Front(s) == SubSeq(s, 1, Len(s) - 1)

\* str.strip(): the string from its first to its last character that is not
\* whitespace.
strip(s) ==
  LET keep == {i \in 1..Len(s) : s[i] \notin Whitespace}
  IN  IF keep = {} THEN <<>>
      ELSE SubSeq(s, CHOOSE i \in keep : \A j \in keep : i <= j,
                     CHOOSE i \in keep : \A j \in keep : i >= j)

\* str.isdigit(): non-empty and every character a digit character.
isdigit(s) ==
  /\ s # <<>>
  /\ \A i \in 1..Len(s) : s[i] \in Digits \cup SuperDigits

RECURSIVE DecimalValue(_)
DecimalValue(s) ==
  IF s = <<>> THEN 0 ELSE 10 * DecimalValue(Front(s)) + DigitVal(Last(s))

\* int(s) for a string that passed isdigit(): ValueError on a superscript digit.
py_int(s) ==
  IF \E i \in 1..Len(s) : s[i] \in SuperDigits
    THEN [raises |-> TRUE, value |-> 0]
    ELSE [raises |-> FALSE, value |-> DecimalValue(s)]

\* The decimal digits of a natural number (str(n)).
RECURSIVE py_str(_)
py_str(n) ==
  IF n < 10 THEN <<DigitChar(n)>>
  ELSE Append(py_str(n \div 10), DigitChar(n % 10))

\* n zero-padded on the left to width w ("%0wd").
RECURSIVE ZeroPad(_, _)
ZeroPad(s, w) == IF Len(s) >= w THEN s ELSE ZeroPad(<<"0">> \o s, w)

----------------------------------------------------------------------------
(* Lines *)

CharAt(line, p) == IF p \in DOMAIN line.ch THEN line.ch[p] ELSE " "

\* line[start-1:end] of Python for a 1-based inclusive range start..end.
PySlice(line, start, end) ==
  LET hi == Min(end, line.len)
  IN  IF hi < start THEN <<>>
      ELSE [i \in 1..(hi - start + 1) |-> CharAt(line, start + i - 1)]

\* line.rstrip(): the line cut after its last non-whitespace character.
line_rstrip(line) ==
  LET keep == {p \in DOMAIN line.ch : line.ch[p] \notin Whitespace}
      n == IF keep = {} THEN 0 ELSE CHOOSE p \in keep : \A q \in keep : q <= p
  IN  [len |-> n, ch |-> [p \in keep |-> line.ch[p]]]

----------------------------------------------------------------------------
(* src/utils/data_utils.py *)

extract_posting_date(line) ==
  LET date_segment == PySlice(line, 76, 89)
  IN  SubSeq(date_segment, 7, Min(16, Len(date_segment)))

extract_card_number(line) == strip(PySlice(line, 28, 43))

IsLeap(y) == (y % 4 = 0 /\ y % 100 # 0) \/ y % 400 = 0

DaysInMonth(y, m) ==
  IF m = 2 THEN (IF IsLeap(y) THEN 29 ELSE 28)
  ELSE IF m \in {4, 6, 9, 11} THEN 30 ELSE 31

\* The month group of strptime's regex, 1[0-2]|0[1-9]|[1-9], tried at
\* position p: the lengths it can match, in the order the engine tries them.
MonthLens(s, p) ==
  (IF /\ p + 1 <= Len(s)
      /\ \/ s[p] = "1" /\ s[p + 1] \in {"0", "1", "2"}
         \/ s[p] = "0" /\ s[p + 1] \in Digits \ {"0"}
     THEN <<2>> ELSE <<>>)
  \o (IF p <= Len(s) /\ s[p] \in Digits \ {"0"} THEN <<1>> ELSE <<>>)

\* The day group, 3[0-1]|[1-2]\d|0[1-9]|[1-9]| [1-9], tried at position p:
\* the length of its first match, 0 when none.
DayLen(s, p) ==
  IF /\ p + 1 <= Len(s)
     /\ \/ s[p] = "3" /\ s[p + 1] \in {"0", "1"}
        \/ s[p] \in {"1", "2"} /\ s[p + 1] \in Digits
        \/ s[p] = "0" /\ s[p + 1] \in Digits \ {"0"}
    THEN 2
  ELSE IF p <= Len(s) /\ s[p] \in Digits \ {"0"} THEN 1
  ELSE IF p + 1 <= Len(s) /\ s[p] = " " /\ s[p + 1] \in Digits \ {"0"} THEN 2
  ELSE 0

\* datetime.datetime.strptime(yyyymmdd, "%Y%m%d").date(): the date as
\* <<year, month, day>>, or ValueError.
to_date(yyyymmdd) ==
  LET s == yyyymmdd
      failed == [raises |-> TRUE, value |-> <<0, 0, 0>>]
  IN  IF ~(Len(s) >= 4 /\ \A i \in 1..4 : s[i] \in Digits) THEN failed
      ELSE
        LET ml == MonthLens(s, 5)
            ok == {i \in 1..Len(ml) : DayLen(s, 5 + ml[i]) > 0}
        IN  IF ok = {} THEN failed
            ELSE
              LET i == CHOOSE j \in ok : \A k \in ok : j <= k
                  mlen == ml[i]
                  dlen == DayLen(s, 5 + mlen)
                  y == DecimalValue(SubSeq(s, 1, 4))
                  m == DecimalValue(SubSeq(s, 5, 4 + mlen))
                  d == DecimalValue(strip(SubSeq(s, 5 + mlen, 4 + mlen + dlen)))
              IN  IF 4 + mlen + dlen # Len(s) THEN failed
                  ELSE IF y < 1 \/ d > DaysInMonth(y, m) THEN failed
                  ELSE [raises |-> FALSE, value |-> <<y, m, d>>]

\* Comparison of datetime.date values.
DateLess(a, b) ==
  \/ a[1] < b[1]
  \/ a[1] = b[1] /\ a[2] < b[2]
  \/ a[1] = b[1] /\ a[2] = b[2] /\ a[3] < b[3]

\* str(date): "YYYY-MM-DD".
date_str(d) ==
  ZeroPad(py_str(d[1]), 4) \o <<"-">> \o ZeroPad(py_str(d[2]), 2)
    \o <<"-">> \o ZeroPad(py_str(d[3]), 2)

\* A faulty variant: the trailing "-" is dropped and the digits kept positive.
slice_num_sign_dropped(line, start, end) ==
  LET field == strip(PySlice(line, start, end))
      zero == [raises |-> FALSE, value |-> 0]
  IN  IF field = <<>> THEN zero
      ELSE IF Last(field) = "-"
        THEN LET num == strip(Front(field))
             IN  IF isdigit(num) THEN py_int(num) ELSE zero
      ELSE IF isdigit(field) THEN py_int(field) ELSE zero

\* slice_num: the value, or the ValueError of int().
slice_num(line, start, end) ==
  LET field == strip(PySlice(line, start, end))
      zero == [raises |-> FALSE, value |-> 0]
  IN  IF field = <<>> THEN zero
      ELSE IF Last(field) = "-"
        THEN LET num == strip(Front(field))
             IN  IF isdigit(num)
                   THEN [raises |-> py_int(num).raises,
                         value |-> 0 - py_int(num).value]
                   ELSE zero
      ELSE IF isdigit(field) THEN py_int(field) ELSE zero

slice_str(line, start, end) == strip(PySlice(line, start, end))

\* custom_round on a value given in twentieths (x = x20 / 20), which holds
\* every float the validator rounds exactly: an integer n is 20 * n, and
\* n * 0.05 is n.  int(x) truncates toward zero.
custom_round(x20) ==
  LET integer == IF x20 >= 0 THEN x20 \div 20 ELSE 0 - ((0 - x20) \div 20)
      decimal20 == x20 - 20 * integer
  IN  IF decimal20 >= 10 THEN integer + 1 ELSE integer

\* float(n) for the integer n = 2^53 + d, 0 <= d < 2^53, given and returned
\* as its distance d from 2^53: a double holds 53 significant bits, so from
\* 2^53 on only the even integers exist, and an odd one goes to the
\* neighbour whose significand (2^52 + d / 2) is even.
float_from_2_53(d) ==
  IF d % 2 = 0 THEN d ELSE IF d % 4 = 1 THEN d - 1 ELSE d + 1

\* custom_round of the integer 2^53 + d, as distances from 2^53: x is
\* float(2^53 + d), int(x) is x, the decimal part is 0.0.
custom_round_from_2_53(d) == float_from_2_53(d)

----------------------------------------------------------------------------
(* Python values *)

\* Truthiness of an optional str: None and "" are both false.
Truthy(opt) == opt # <<>> /\ opt[1] # <<>>

DictHas(d, k) == \E i \in 1..Len(d) : d[i].k = k

DictIndex(d, k) == CHOOSE i \in 1..Len(d) : d[i].k = k

\* d.get(k, default)
DictGet(d, k, default) == IF DictHas(d, k) THEN d[DictIndex(d, k)].v ELSE default

\* d[k] = v: an existing key keeps its place in the iteration order.
DictSet(d, k, v) ==
  IF DictHas(d, k) THEN [d EXCEPT ![DictIndex(d, k)].v = v]
  ELSE Append(d, [k |-> k, v |-> v])

\* sep.join(parts)
RECURSIVE join(_, _)
join(sep, parts) ==
  IF parts = <<>> THEN <<>>
  ELSE IF Len(parts) = 1 THEN parts[1]
  ELSE parts[1] \o sep \o join(sep, Tail(parts))

RECURSIVE SumSeq(_)
SumSeq(s) == IF s = <<>> THEN 0 ELSE Head(s) + SumSeq(Tail(s))

\* The string literals of the source that are compared with sliced text.
T01 == <<"0", "1">>

T02 == <<"0", "2">>

T03 == <<"0", "3">>

T04 == <<"0", "4">>

DR == <<"D", "R">>

CR == <<"C", "R">>

\* {"DR": 0, "CR": 0}
ZeroStats == <<[k |-> DR, v |-> 0], [k |-> CR, v |-> 0]>>

----------------------------------------------------------------------------
(* Regular expressions (re.compile(...).match) *)

ReLit(str) == [op |-> "lit", str |-> str]

ReCat(args) == [op |-> "cat", args |-> args]

ReAlt(args) == [op |-> "alt", args |-> args]

ReStar(arg) == [op |-> "star", arg |-> arg]

\* RegexEnds(re, s, i): the positions just after a match of re that starts
\* at position i of s.
RECURSIVE RegexEnds(_, _, _)
RECURSIVE CatEnds(_, _, _)
RECURSIVE StarEnds(_, _, _)
RegexEnds(re, s, i) ==
  CASE re.op = "lit" ->
         IF /\ i + Len(re.str) - 1 <= Len(s)
            /\ SubSeq(s, i, i + Len(re.str) - 1) = re.str
           THEN {i + Len(re.str)} ELSE {}
    [] re.op = "cat" -> CatEnds(re.args, s, {i})
    [] re.op = "alt" ->
         UNION {RegexEnds(re.args[n], s, i) : n \in 1..Len(re.args)}
    [] re.op = "star" -> StarEnds(re.arg, s, {i})

CatEnds(args, s, from) ==
  IF args = <<>> THEN from
  ELSE CatEnds(Tail(args), s, UNION {RegexEnds(Head(args), s, i) : i \in from})

StarEnds(re, s, from) ==
  LET more == from \cup UNION {RegexEnds(re, s, i) : i \in from}
  IN  IF more = from THEN from ELSE StarEnds(re, s, more)

\* "$": the end of the string, or just before a newline that ends it.
AtDollar(s, j) == j = Len(s) + 1 \/ (j = Len(s) /\ s[j] = "\n")

\* re.compile("^" body "$").match(s) is not None
regex_match(body, s) == \E j \in RegexEnds(body, s, 1) : AtDollar(s, j)

----------------------------------------------------------------------------
(* bridge.py: process_validation_realtime *)

\* from_date and until_date of the run (the defaults of params.get).
from_date == <<2025, 10, 16>>

until_date == <<2025, 11, 15>>

\* bridge.py chooses "02" for both card types.
realtime_target_header_type(card_type) ==
  IF card_type = "CORPORATE" THEN T02 ELSE T02

\* The state of a run before the first line: the collectors, the scan state,
\* the batch buffers, and what has been written to stdout (data: the DATA
\* messages, progress: the PROGRESS messages).  pc is "scan" in the loop,
\* "done" once the result is returned, "failed" once an exception has
\* reached main; error then names the call that raised the ValueError
\* ("strptime" in to_date, "int" in slice_num), whose message is never empty.
RealtimeInit ==
  [pc |-> "scan", error |-> <<>>,
   filtered |-> <<>>, validations |-> <<>>, card_records |-> <<>>,
   transaction_tracker |-> <<>>, card_transactions |-> <<>>,
   card_tot_payment |-> <<>>, zero_amount_transactions |-> <<>>,
   customer_sequences |-> <<>>,
   current_header |-> <<>>, current_stats |-> ZeroStats,
   current_customer |-> <<>>, current_card |-> <<>>, processed |-> 0,
   val_batch |-> <<>>, filter_batch |-> <<>>, zero_batch |-> <<>>,
   data |-> <<>>, progress |-> <<>>,
   structure_results |-> <<>>, duplicate_transactions |-> <<>>,
   tot_payment_results |-> <<>>, sequence_results |-> <<>>]

\* Send every N items.
BATCH_SIZE == 5

send_progress(s, processed, total) ==
  [s EXCEPT !.progress = Append(@, [processed |-> processed, total |-> total])]

send_data(s, module, rows) ==
  [s EXCEPT !.data = Append(@, [module |-> module, rows |-> rows])]

flush_val_batch(s) ==
  IF s.val_batch # <<>>
    THEN [send_data(s, "validations", s.val_batch) EXCEPT !.val_batch = <<>>]
    ELSE s

flush_filter_batch(s) ==
  IF s.filter_batch # <<>>
    THEN [send_data(s, "filtered_transactions", s.filter_batch)
            EXCEPT !.filter_batch = <<>>]
    ELSE s

flush_zero_batch(s) ==
  IF s.zero_batch # <<>>
    THEN [send_data(s, "zero_amount_transactions", s.zero_batch)
            EXCEPT !.zero_batch = <<>>]
    ELSE s

flush_batches(s) == flush_zero_batch(flush_filter_batch(flush_val_batch(s)))

\* check(field, exp, act) of validate_block
check(card, field, exp, act) ==
  [card |-> card, field |-> field, expected |-> exp, actual |-> act,
   status |-> IF exp = act THEN "PASS" ELSE "FAIL"]

\* A faulty variant: credits are added to the balance instead of subtracted.
expected_new_balance_credit_added(header, stats) ==
  custom_round(20 * (DictGet(stats, DR, 0) + header.prev + header.int
                       + DictGet(stats, CR, 0)))

\* expected_new of validate_block
expected_new_balance(header, stats) ==
  custom_round(20 * (DictGet(stats, DR, 0) + header.prev + header.int
                       - DictGet(stats, CR, 0)))

\* A faulty variant: the installment is added back instead of subtracted.
expected_available_instl_added(header, expected_new) ==
  custom_round(20 * (header.cr_limit - expected_new + header.instl))

\* expected_avl of validate_block
expected_available(header, expected_new) ==
  custom_round(20 * (header.cr_limit - expected_new - header.instl))

\* expected_min_pay by card type: custom_round(expected_new * 0.05) is
\* custom_round of expected_new twentieths.
min_payment_by_card_type(card_type_val, expected_new) ==
  IF card_type_val = "CORPORATE" THEN expected_new
  ELSE IF custom_round(expected_new) < 50000 THEN 50000
  ELSE custom_round(expected_new)

\* A faulty variant: a balance of exactly zero keeps the computed payment.
expected_min_payment_zero_kept(card_type_val, expected_new) ==
  IF expected_new < 0 THEN 0
  ELSE min_payment_by_card_type(card_type_val, expected_new)

\* expected_min_pay of validate_block: if expected_new <= 0 it is 0,
\* whatever was computed before.
expected_min_payment(card_type_val, expected_new) ==
  IF expected_new <= 0 THEN 0
  ELSE min_payment_by_card_type(card_type_val, expected_new)

\* results of validate_block
validate_block_results(header, card_type_val, expected_new) ==
  <<check(header.card, "NEW_BAL", expected_new, header.new_bal),
    check(header.card, "AVL_CR_LIMIT",
          expected_available(header, expected_new), header.avl_actual),
    check(header.card, "PT_SH_MIN_PAYMENT",
          expected_min_payment(card_type_val, expected_new),
          header.amount_due)>>

extend_validations(s, results) ==
  [s EXCEPT !.validations = @ \o results, !.val_batch = @ \o results]

validate_block(s, header, stats, card_type_val) ==
  extend_validations(s,
    validate_block_results(header, card_type_val,
                           expected_new_balance(header, stats)))

\* card_records[current_customer].add(code);
\* customer_sequences[current_customer].append(code)
realtime_register(s, code) ==
  LET c == s.current_customer[1]
  IN  [s EXCEPT
        !.card_records = DictSet(@, c, DictGet(@, c, {}) \cup {code}),
        !.customer_sequences = DictSet(@, c, Append(DictGet(@, c, <<>>), code))]

\* A faulty variant: a customer record starts the customer's entry afresh.
realtime_customer_entry_reset(s, current_customer) ==
  [s EXCEPT !.card_records = DictSet(@, current_customer, {}),
            !.customer_sequences = DictSet(@, current_customer, <<>>)]

\* if current_customer not in card_records: ...
realtime_customer_entry(s, current_customer) ==
  IF ~DictHas(s.card_records, current_customer)
    THEN [s EXCEPT !.card_records = DictSet(@, current_customer, {}),
                   !.customer_sequences = DictSet(@, current_customer, <<>>)]
    ELSE s

\* if record_type == "01": ...
realtime_customer(s, line) ==
  realtime_register(
    realtime_customer_entry(
      [s EXCEPT !.current_customer = <<slice_str(line, 3, 18)>>],
      slice_str(line, 3, 18)),
    T01)

\* if current_header is not None: validate_block(...)
realtime_close_block(s, card_type) ==
  IF s.current_header # <<>>
    THEN validate_block(s, s.current_header[1], s.current_stats, card_type)
    ELSE s

\* A faulty variant: a header is not registered for its customer.
realtime_header_register_skipped(s, record_type) == s

\* if record_type == "02" and current_customer: ...
realtime_header_register(s, record_type) ==
  IF record_type = T02 /\ Truthy(s.current_customer)
    THEN realtime_register(s, T02)
    ELSE s

\* The new block: the statistics reset, the header decoded, the card's
\* declared total payment and its empty transaction list recorded.  A
\* decoder that raises ends the run where it is called.
realtime_open_block(s, record_type, current_card, h, tot_payment) ==
  IF \/ h.prev.raises \/ h.int.raises \/ h.cr_limit.raises \/ h.instl.raises
     \/ h.new_bal.raises \/ h.amount_due.raises \/ h.avl_actual.raises
    THEN [s EXCEPT !.current_stats = ZeroStats,
                   !.current_card = <<current_card>>,
                   !.pc = "failed", !.error = <<"int">>]
  ELSE
    LET header == [card |-> current_card, prev |-> h.prev.value,
                   int |-> h.int.value, cr_limit |-> h.cr_limit.value,
                   instl |-> h.instl.value, new_bal |-> h.new_bal.value,
                   amount_due |-> h.amount_due.value,
                   avl_actual |-> h.avl_actual.value]
    IN  IF tot_payment.raises
          THEN [s EXCEPT !.current_stats = ZeroStats,
                         !.current_card = <<current_card>>,
                         !.current_header = <<header>>,
                         !.pc = "failed", !.error = <<"int">>]
          ELSE realtime_header_register(
                 [s EXCEPT
                   !.current_stats = ZeroStats,
                   !.current_card = <<current_card>>,
                   !.current_header = <<header>>,
                   !.card_tot_payment =
                     DictSet(@, current_card, tot_payment.value),
                   !.card_transactions = DictSet(@, current_card, <<>>)],
                 record_type)

\* if record_type == target_header_type: ...
realtime_header(s, line, record_type, card_type) ==
  realtime_open_block(
    realtime_close_block(s, card_type), record_type,
    slice_str(line, 28, 43),
    [prev |-> slice_num(line, 324, 338), int |-> slice_num(line, 399, 413),
     cr_limit |-> slice_num(line, 279, 292),
     instl |-> slice_num(line, 891, 900),
     new_bal |-> slice_num(line, 414, 428),
     amount_due |-> slice_num(line, 264, 277),
     avl_actual |-> slice_num(line, 294, 308)],
    slice_num(line, 354, 367))

\* A faulty variant: the two boundary dates are filtered as well.
realtime_filter_boundaries_out(s, posting_date, entry) ==
  IF ~DateLess(from_date, posting_date) \/ ~DateLess(posting_date, until_date)
    THEN [s EXCEPT !.filtered = Append(@, entry),
                !.filter_batch = Append(@, entry)]
    ELSE s

\* if posting_date < from_date or posting_date > until_date: ...
realtime_filter(s, posting_date, entry) ==
  IF DateLess(posting_date, from_date) \/ DateLess(until_date, posting_date)
    THEN [s EXCEPT !.filtered = Append(@, entry),
                !.filter_batch = Append(@, entry)]
    ELSE s

\* A faulty variant: the direction is left out of the key.
realtime_track_duplicate_no_direction(s, dup_key) ==
  [s EXCEPT !.transaction_tracker =
    DictSet(@, <<dup_key[1], dup_key[2], dup_key[3], dup_key[4], <<>>>>,
            DictGet(@, <<dup_key[1], dup_key[2], dup_key[3], dup_key[4], <<>>>>, 0)
              + 1)]

\* transaction_tracker[dup_key] = transaction_tracker.get(dup_key, 0) + 1
realtime_track_duplicate(s, dup_key) ==
  [s EXCEPT !.transaction_tracker =
    DictSet(@, dup_key, DictGet(@, dup_key, 0) + 1)]

\* if current_card and current_card in card_transactions: ...
realtime_track_payment(s, trx_dir, trx_amt) ==
  IF /\ Truthy(s.current_card)
     /\ DictHas(s.card_transactions, s.current_card[1])
    THEN [s EXCEPT !.card_transactions =
           DictSet(@, s.current_card[1],
                   Append(DictGet(@, s.current_card[1], <<>>),
                          [direction |-> trx_dir, amount |-> trx_amt]))]
    ELSE s

\* A faulty variant: a zero-amount entry is put in front of the earlier ones.
realtime_track_zero_in_front(s, trx_amt, entry) ==
  IF trx_amt = 0
    THEN [s EXCEPT !.zero_amount_transactions = <<entry>> \o @,
                !.zero_batch = <<entry>> \o @]
    ELSE s

\* if trx_amt == 0: ...
realtime_track_zero(s, trx_amt, entry) ==
  IF trx_amt = 0
    THEN [s EXCEPT !.zero_amount_transactions = Append(@, entry),
                !.zero_batch = Append(@, entry)]
    ELSE s

\* A faulty variant: every amount goes to the debit sum, whatever its direction.
realtime_add_stats_all_debit(s, trx_dir, trx_amt) ==
  IF s.current_header # <<>>
    THEN [s EXCEPT !.current_stats =
           DictSet(@, DR, DictGet(@, DR, 0) + trx_amt)]
    ELSE s

\* if current_header is not None: current_stats[trx_dir] = ...
realtime_add_stats(s, trx_dir, trx_amt) ==
  IF s.current_header # <<>>
    THEN [s EXCEPT !.current_stats =
           DictSet(@, trx_dir, DictGet(@, trx_dir, 0) + trx_amt)]
    ELSE s

\* if current_customer: ... (detail and trailer records)
realtime_register_if_customer(s, code) ==
  IF Truthy(s.current_customer) THEN realtime_register(s, code) ELSE s

\* A faulty variant: a detail whose posting date cannot be parsed is skipped.
realtime_detail_fields_date_skipped(s, line, posting_date, card_num, trx_detail, trx_amt, trx_dir) ==
  s

\* The detail branch once its five fields are decoded.
realtime_detail_fields(s, line, posting_date, card_num, trx_detail, trx_amt, trx_dir) ==
  IF posting_date.raises
    THEN [s EXCEPT !.pc = "failed", !.error = <<"strptime">>]
  ELSE IF trx_amt.raises
    THEN [s EXCEPT !.pc = "failed", !.error = <<"int">>]
  ELSE
    realtime_register_if_customer(
      realtime_add_stats(
        realtime_track_zero(
          realtime_track_payment(
            realtime_track_duplicate(
              realtime_filter(s, posting_date.value,
                [posting |-> date_str(posting_date.value), card |-> card_num,
                 line |-> line_rstrip(line)]),
              <<card_num, date_str(posting_date.value), trx_detail, trx_amt.value, trx_dir>>),
            trx_dir, trx_amt.value),
          trx_amt.value,
          [card |-> card_num, posting_date |-> date_str(posting_date.value),
           trx_detail |-> trx_detail, amount |-> trx_amt.value,
           direction |-> trx_dir]),
        trx_dir, trx_amt.value),
      T03)

\* elif record_type == "03": ...
realtime_detail(s, line) ==
  realtime_detail_fields(s, line,
    to_date(extract_posting_date(line)), extract_card_number(line),
    slice_str(line, 90, 129), slice_num(line, 149, 162),
    slice_str(line, 163, 164))

\* if record_type == "01": ... (track structure)
realtime_track_structure(s, line, record_type) ==
  IF record_type = T01 THEN realtime_customer(s, line) ELSE s

\* The header, detail and trailer branches.
\* A faulty variant: a trailer closes the open block.
realtime_dispatch_trailer_closes(s, line, record_type, card_type) ==
  IF record_type = realtime_target_header_type(card_type)
    THEN realtime_header(s, line, record_type, card_type)
  ELSE IF record_type = T03 THEN realtime_detail(s, line)
  ELSE IF record_type = T04
    THEN [realtime_register_if_customer(realtime_close_block(s, card_type), T04)
            EXCEPT !.current_header = <<>>, !.current_stats = ZeroStats]
  ELSE s

realtime_dispatch(s, line, record_type, card_type) ==
  IF record_type = realtime_target_header_type(card_type)
    THEN realtime_header(s, line, record_type, card_type)
  ELSE IF record_type = T03 THEN realtime_detail(s, line)
  ELSE IF record_type = T04 THEN realtime_register_if_customer(s, T04)
  ELSE s

\* A faulty variant: progress is reported on the line after each thousandth.
realtime_progress_a_line_late(s, total_lines) ==
  IF s.processed % 1000 = 1
    THEN flush_batches(send_progress(s, s.processed, total_lines))
    ELSE s

\* if processed % 1000 == 0: send_progress(...); flush_batches()
realtime_progress(s, total_lines) ==
  IF s.processed % 1000 = 0
    THEN flush_batches(send_progress(s, s.processed, total_lines))
    ELSE s

\* Flush batches periodically; not reached when the iteration raised.
realtime_flush_full(s) ==
  IF /\ s.pc = "scan"
     /\ \/ Len(s.val_batch) >= BATCH_SIZE
        \/ Len(s.filter_batch) >= BATCH_SIZE
        \/ Len(s.zero_batch) >= BATCH_SIZE
    THEN flush_batches(s)
    ELSE s

\* One iteration of "for line in f".
realtime_line(s, line, card_type, total_lines) ==
  realtime_flush_full(
    realtime_dispatch(
      realtime_track_structure(
        realtime_progress([s EXCEPT !.processed = @ + 1], total_lines),
        line, PySlice(line, 1, 2)),
      line, PySlice(line, 1, 2), card_type))

\* A faulty variant: the missing codes are listed in descending order.
sorted_codes_descending(missing) ==
  SelectSeq(<<T04, T03, T02, T01>>, LAMBDA code : code \in missing)

\* sorted(missing) for missing a subset of required = {"01","02","03","04"}
sorted_codes(missing) ==
  SelectSeq(<<T01, T02, T03, T04>>, LAMBDA code : code \in missing)

YesNo(b) == IF b THEN "Yes" ELSE "No"

\* ", ".join(sorted(missing)) if missing else "-"
missing_text(missing) ==
  IF missing # {} THEN join(<<",", " ">>, sorted_codes(missing)) ELSE <<"-">>

realtime_structure_row(customer, types, missing) ==
  [customer |-> customer,
   has_01 |-> YesNo(T01 \in types), has_02 |-> YesNo(T02 \in types),
   has_03 |-> YesNo(T03 \in types), has_04 |-> YesNo(T04 \in types),
   status |-> IF missing = {} THEN "VALID" ELSE "INVALID",
   missing |-> missing_text(missing)]

\* Structure results: one row per entry of card_records, in dict order.
realtime_structure_results(card_records) ==
  [i \in 1..Len(card_records) |->
    realtime_structure_row(card_records[i].k, card_records[i].v,
                    {T01, T02, T03, T04} \ card_records[i].v)]

realtime_duplicate_row(key, count) ==
  [card |-> key[1], posting_date |-> key[2], trx_detail |-> key[3],
   amount |-> key[4], direction |-> key[5], count |-> count]

realtime_duplicate_rows(dups) ==
  [i \in 1..Len(dups) |-> realtime_duplicate_row(dups[i].k, dups[i].v)]

\* Duplicate results: the keys counted more than once, in dict order.
realtime_duplicate_transactions(transaction_tracker) ==
  realtime_duplicate_rows(SelectSeq(transaction_tracker, LAMBDA e : e.v > 1))

realtime_amounts(transactions) ==
  [n \in 1..Len(transactions) |-> transactions[n].amount]

\* A faulty variant: a card has credits only when their total is positive.
realtime_totpay_row_positive_total(card, tot_payment, cr_transactions) ==
  [card |-> card, tot_payment |-> tot_payment,
   has_cr |-> YesNo(Len(cr_transactions) > 0),
   cr_total |-> SumSeq(realtime_amounts(cr_transactions)),
   status |-> IF SumSeq(realtime_amounts(cr_transactions)) > 0 /\ tot_payment = 0
                THEN "INVALID" ELSE "VALID"]

realtime_totpay_row(card, tot_payment, cr_transactions) ==
  [card |-> card, tot_payment |-> tot_payment,
   has_cr |-> YesNo(Len(cr_transactions) > 0),
   cr_total |-> SumSeq(realtime_amounts(cr_transactions)),
   status |-> IF Len(cr_transactions) > 0 /\ tot_payment = 0
                THEN "INVALID" ELSE "VALID"]

\* Tot payment results: one row per entry of card_tot_payment.
realtime_tot_payment_results(card_tot_payment, card_transactions) ==
  [i \in 1..Len(card_tot_payment) |->
    realtime_totpay_row(card_tot_payment[i].k, card_tot_payment[i].v,
      SelectSeq(DictGet(card_transactions, card_tot_payment[i].k, <<>>),
                LAMBDA t : t.direction = CR))]

\* A faulty variant: the first block too may start with 02 or 03.
realtime_pattern_loose ==
  ReCat(<<ReLit(T01),
          ReStar(ReCat(<<ReAlt(<<ReLit(T02), ReLit(T03)>>),
                         ReStar(ReLit(T03)), ReLit(T04)>>))>>)

\* A faulty variant: every later block must start with 02.
realtime_pattern_strict ==
  ReCat(<<ReLit(T01),
          ReCat(<<ReLit(T02), ReStar(ReLit(T03)), ReLit(T04)>>),
          ReStar(ReCat(<<ReLit(T02), ReStar(ReLit(T03)), ReLit(T04)>>))>>)

\* pattern = re.compile(r"^01(02(03)*04)((02|03)(03)*04)*$"), without its
\* anchors
realtime_pattern ==
  ReCat(<<ReLit(T01),
          ReCat(<<ReLit(T02), ReStar(ReLit(T03)), ReLit(T04)>>),
          ReStar(ReCat(<<ReAlt(<<ReLit(T02), ReLit(T03)>>),
                         ReStar(ReLit(T03)), ReLit(T04)>>))>>)

realtime_sequence_row(customer, seq) ==
  [customer |-> customer,
   sequence |-> join(<<"-", ">">>, seq),
   status |-> IF regex_match(realtime_pattern, join(<<>>, seq)) THEN "VALID" ELSE "INVALID"]

\* Sequence results: one row per entry of customer_sequences.
realtime_sequence_results(customer_sequences) ==
  [i \in 1..Len(customer_sequences) |->
    realtime_sequence_row(customer_sequences[i].k, customer_sequences[i].v)]

\* A faulty variant: the block still open at the end of the stream is dropped.
realtime_last_block_dropped(s, card_type) == s

\* Validate last block; the batches are flushed only here.
realtime_last_block(s, card_type) ==
  IF s.current_header # <<>>
    THEN flush_batches(validate_block(s, s.current_header[1],
                                      s.current_stats, card_type))
    ELSE s

realtime_send_structure(s) ==
  [send_data(s, "structure_results",
             realtime_structure_results(s.card_records))
    EXCEPT !.structure_results = realtime_structure_results(s.card_records)]

realtime_send_duplicates(s) ==
  [send_data(s, "duplicate_transactions",
             realtime_duplicate_transactions(s.transaction_tracker))
    EXCEPT !.duplicate_transactions =
             realtime_duplicate_transactions(s.transaction_tracker)]

realtime_send_tot_payment(s) ==
  [send_data(s, "tot_payment_results",
             realtime_tot_payment_results(s.card_tot_payment,
                                          s.card_transactions))
    EXCEPT !.tot_payment_results =
             realtime_tot_payment_results(s.card_tot_payment,
                                          s.card_transactions)]

realtime_send_sequence(s) ==
  [send_data(s, "sequence_results",
             realtime_sequence_results(s.customer_sequences))
    EXCEPT !.sequence_results =
             realtime_sequence_results(s.customer_sequences),
           !.pc = "done"]

\* A faulty variant: the structure report is sent before the last block is
\* validated.
realtime_finish_report_first(s, card_type, total_lines) ==
  realtime_send_sequence(
    realtime_send_tot_payment(
      realtime_send_duplicates(
        send_progress(
          realtime_last_block(realtime_send_structure(s), card_type),
          total_lines, total_lines))))

\* What follows the loop: the last block, the final progress message, the
\* four post-pass reports (each sent as one DATA message), the return.
realtime_finish(s, card_type, total_lines) ==
  realtime_send_sequence(
    realtime_send_tot_payment(
      realtime_send_duplicates(
        realtime_send_structure(
          send_progress(realtime_last_block(s, card_type),
                        total_lines, total_lines)))))

\* main: what is printed as the final JSON line, nothing while the run
\* lasts, the combined result once it returned, the failure once an
\* exception reached the except clause (which then exits with status 1).
main(s) ==
  CASE s.pc = "done" ->
         <<[success |-> TRUE,
            data |-> [validations |-> s.validations,
                      filtered_transactions |-> s.filtered,
                      structure_results |-> s.structure_results,
                      duplicate_transactions |-> s.duplicate_transactions,
                      zero_amount_transactions |-> s.zero_amount_transactions,
                      tot_payment_results |-> s.tot_payment_results,
                      sequence_results |-> s.sequence_results]]>>
    [] s.pc = "failed" -> <<[success |-> FALSE, error |-> s.error[1]]>>
    [] OTHER -> <<>>

----------------------------------------------------------------------------
(* src/core/validation.py: PTSTMTValidator *)

\* self.target_header_type of __init__
validator_target_header_type(card_type) ==
  IF card_type = "REGULAR" THEN T02 ELSE T01

\* The locals of process_file before the first line; progress holds the
\* calls of progress_callback; pc as for the streaming engine.
ValidatorInit ==
  [pc |-> "scan",
   filtered |-> <<>>, validations |-> <<>>, card_records |-> <<>>,
   transaction_tracker |-> <<>>, card_transactions |-> <<>>,
   card_tot_payment |-> <<>>, zero_amount_transactions |-> <<>>,
   customer_sequences |-> <<>>,
   current_header |-> <<>>, current_stats |-> ZeroStats,
   current_customer |-> <<>>, current_card |-> <<>>, processed |-> 0,
   progress |-> <<>>,
   structure_results |-> <<>>, duplicate_transactions |-> <<>>,
   tot_payment_results |-> <<>>, sequence_results |-> <<>>]

\* check(field, exp, act) of _validate_block
validator_check(card, field, exp, act) ==
  [card |-> card, field |-> field, expected |-> exp, actual |-> act,
   status |-> IF exp = act THEN "PASS" ELSE "FAIL"]

\* expected_new of _validate_block
validator_expected_new(header, stats) ==
  custom_round(20 * (DictGet(stats, DR, 0) + header.prev + header.int
                       - DictGet(stats, CR, 0)))

\* expected_avl of _validate_block
validator_expected_avl(header, expected_new) ==
  custom_round(20 * (header.cr_limit - expected_new - header.instl))

\* expected_min_pay by card type
validator_min_pay_by_card_type(card_type, expected_new) ==
  IF card_type = "CORPORATE" THEN expected_new
  ELSE IF custom_round(expected_new) < 50000 THEN 50000
  ELSE custom_round(expected_new)

\* expected_min_pay of _validate_block: if expected_new <= 0 it is 0.
validator_expected_min_pay(card_type, expected_new) ==
  IF expected_new <= 0 THEN 0
  ELSE validator_min_pay_by_card_type(card_type, expected_new)

\* The three validations.append calls of _validate_block.
validator_block_rows(header, card_type, expected_new) ==
  <<validator_check(header.card, "NEW_BAL", expected_new, header.new_bal),
    validator_check(header.card, "AVL_CR_LIMIT",
                    validator_expected_avl(header, expected_new),
                    header.avl_actual),
    validator_check(header.card, "PT_SH_MIN_PAYMENT",
                    validator_expected_min_pay(card_type, expected_new),
                    header.amount_due)>>

\* PTSTMTValidator._validate_block, on the run's validations list.
validator_validate_block(s, header, stats, card_type) ==
  [s EXCEPT !.validations =
    @ \o validator_block_rows(header, card_type,
                              validator_expected_new(header, stats))]

\* card_records[current_customer].add(code);
\* customer_sequences[current_customer].append(code)
validator_register(s, code) ==
  LET c == s.current_customer[1]
  IN  [s EXCEPT
        !.card_records = DictSet(@, c, DictGet(@, c, {}) \cup {code}),
        !.customer_sequences = DictSet(@, c, Append(DictGet(@, c, <<>>), code))]

\* if current_customer not in card_records: ...
validator_customer_entry(s, current_customer) ==
  IF ~DictHas(s.card_records, current_customer)
    THEN [s EXCEPT !.card_records = DictSet(@, current_customer, {}),
                   !.customer_sequences = DictSet(@, current_customer, <<>>)]
    ELSE s

\* if record_type == "01": ...
validator_customer(s, line) ==
  validator_register(
    validator_customer_entry(
      [s EXCEPT !.current_customer = <<slice_str(line, 3, 18)>>],
      slice_str(line, 3, 18)),
    T01)

\* if current_header is not None: validator_validate_block(...)
validator_close_block(s, card_type) ==
  IF s.current_header # <<>>
    THEN validator_validate_block(s, s.current_header[1], s.current_stats, card_type)
    ELSE s

\* if record_type == "02" and current_customer: ...
validator_header_register(s, record_type) ==
  IF record_type = T02 /\ Truthy(s.current_customer)
    THEN validator_register(s, T02)
    ELSE s

\* The new block: the statistics reset, the header decoded, the card's
\* declared total payment and its empty transaction list recorded.  A
\* decoder that raises ends the run where it is called.
validator_open_block(s, record_type, current_card, h, tot_payment) ==
  IF \/ h.prev.raises \/ h.int.raises \/ h.cr_limit.raises \/ h.instl.raises
     \/ h.new_bal.raises \/ h.amount_due.raises \/ h.avl_actual.raises
    THEN [s EXCEPT !.current_stats = ZeroStats,
                   !.current_card = <<current_card>>,
                   !.pc = "failed"]
  ELSE
    LET header == [card |-> current_card, prev |-> h.prev.value,
                   int |-> h.int.value, cr_limit |-> h.cr_limit.value,
                   instl |-> h.instl.value, new_bal |-> h.new_bal.value,
                   amount_due |-> h.amount_due.value,
                   avl_actual |-> h.avl_actual.value]
    IN  IF tot_payment.raises
          THEN [s EXCEPT !.current_stats = ZeroStats,
                         !.current_card = <<current_card>>,
                         !.current_header = <<header>>,
                         !.pc = "failed"]
          ELSE validator_header_register(
                 [s EXCEPT
                   !.current_stats = ZeroStats,
                   !.current_card = <<current_card>>,
                   !.current_header = <<header>>,
                   !.card_tot_payment =
                     DictSet(@, current_card, tot_payment.value),
                   !.card_transactions = DictSet(@, current_card, <<>>)],
                 record_type)

\* if record_type == target_header_type: ...
validator_header(s, line, record_type, card_type) ==
  validator_open_block(
    validator_close_block(s, card_type), record_type,
    slice_str(line, 28, 43),
    [prev |-> slice_num(line, 324, 338), int |-> slice_num(line, 399, 413),
     cr_limit |-> slice_num(line, 279, 292),
     instl |-> slice_num(line, 891, 900),
     new_bal |-> slice_num(line, 414, 428),
     amount_due |-> slice_num(line, 264, 277),
     avl_actual |-> slice_num(line, 294, 308)],
    slice_num(line, 354, 367))

\* if posting_date < from_date or posting_date > until_date: ...
validator_filter(s, posting_date, entry) ==
  IF DateLess(posting_date, from_date) \/ DateLess(until_date, posting_date)
    THEN [s EXCEPT !.filtered = Append(@, entry)]
    ELSE s

\* transaction_tracker[dup_key] = transaction_tracker.get(dup_key, 0) + 1
validator_track_duplicate(s, dup_key) ==
  [s EXCEPT !.transaction_tracker =
    DictSet(@, dup_key, DictGet(@, dup_key, 0) + 1)]

\* if current_card and current_card in card_transactions: ...
validator_track_payment(s, trx_dir, trx_amt) ==
  IF /\ Truthy(s.current_card)
     /\ DictHas(s.card_transactions, s.current_card[1])
    THEN [s EXCEPT !.card_transactions =
           DictSet(@, s.current_card[1],
                   Append(DictGet(@, s.current_card[1], <<>>),
                          [direction |-> trx_dir, amount |-> trx_amt]))]
    ELSE s

\* if trx_amt == 0: ...
validator_track_zero(s, trx_amt, entry) ==
  IF trx_amt = 0
    THEN [s EXCEPT !.zero_amount_transactions = Append(@, entry)]
    ELSE s

\* if current_header is not None: current_stats[trx_dir] = ...
validator_add_stats(s, trx_dir, trx_amt) ==
  IF s.current_header # <<>>
    THEN [s EXCEPT !.current_stats =
           DictSet(@, trx_dir, DictGet(@, trx_dir, 0) + trx_amt)]
    ELSE s

\* if current_customer: ... (detail and trailer records)
validator_register_if_customer(s, code) ==
  IF Truthy(s.current_customer) THEN validator_register(s, code) ELSE s

\* The detail branch once its five fields are decoded.
validator_detail_fields(s, line, posting_date, card_num, trx_detail, trx_amt, trx_dir) ==
  IF posting_date.raises \/ trx_amt.raises THEN [s EXCEPT !.pc = "failed"]
  ELSE
    validator_register_if_customer(
      validator_add_stats(
        validator_track_zero(
          validator_track_payment(
            validator_track_duplicate(
              validator_filter(s, posting_date.value,
                [posting |-> posting_date.value, card |-> card_num,
                 line |-> line_rstrip(line)]),
              <<card_num, posting_date.value, trx_detail, trx_amt.value, trx_dir>>),
            trx_dir, trx_amt.value),
          trx_amt.value,
          [card |-> card_num, posting_date |-> posting_date.value,
           trx_detail |-> trx_detail, amount |-> trx_amt.value,
           direction |-> trx_dir]),
        trx_dir, trx_amt.value),
      T03)

\* elif record_type == "03": ...
validator_detail(s, line) ==
  validator_detail_fields(s, line,
    to_date(extract_posting_date(line)), extract_card_number(line),
    slice_str(line, 90, 129), slice_num(line, 149, 162),
    slice_str(line, 163, 164))

\* if record_type == "01": ... (track structure)
validator_track_structure(s, line, record_type) ==
  IF record_type = T01 THEN validator_customer(s, line) ELSE s

\* The header, detail and trailer branches.
validator_dispatch(s, line, record_type, card_type) ==
  IF record_type = validator_target_header_type(card_type)
    THEN validator_header(s, line, record_type, card_type)
  ELSE IF record_type = T03 THEN validator_detail(s, line)
  ELSE IF record_type = T04 THEN validator_register_if_customer(s, T04)
  ELSE s

\* if progress_callback and processed % 1000 == 0: ...
validator_progress(s, total_lines) ==
  IF s.processed % 1000 = 0
    THEN [s EXCEPT !.progress =
           Append(@, [processed |-> s.processed, total |-> total_lines])]
    ELSE s

\* One iteration of "for line in f" of process_file.
validator_line(s, line, card_type, total_lines) ==
  validator_dispatch(
    validator_track_structure(
      validator_progress([s EXCEPT !.processed = @ + 1], total_lines),
      line, PySlice(line, 1, 2)),
    line, PySlice(line, 1, 2), card_type)

validator_structure_row(customer, types, missing) ==
  [customer |-> customer,
   has_01 |-> YesNo(T01 \in types), has_02 |-> YesNo(T02 \in types),
   has_03 |-> YesNo(T03 \in types), has_04 |-> YesNo(T04 \in types),
   status |-> IF missing = {} THEN "VALID" ELSE "INVALID",
   missing |-> missing_text(missing)]

\* Structure results: one row per entry of card_records, in dict order.
generate_structure_results(card_records) ==
  [i \in 1..Len(card_records) |->
    validator_structure_row(card_records[i].k, card_records[i].v,
                    {T01, T02, T03, T04} \ card_records[i].v)]

validator_duplicate_row(key, count) ==
  [card |-> key[1], posting_date |-> key[2], trx_detail |-> key[3],
   amount |-> key[4], direction |-> key[5], count |-> count]

validator_duplicate_rows(dups) ==
  [i \in 1..Len(dups) |-> validator_duplicate_row(dups[i].k, dups[i].v)]

\* Duplicate results: the keys counted more than once, in dict order.
generate_duplicate_results(transaction_tracker) ==
  validator_duplicate_rows(SelectSeq(transaction_tracker, LAMBDA e : e.v > 1))

validator_amounts(transactions) ==
  [n \in 1..Len(transactions) |-> transactions[n].amount]

validator_totpay_row(card, tot_payment, cr_transactions) ==
  [card |-> card, tot_payment |-> tot_payment,
   has_cr |-> YesNo(Len(cr_transactions) > 0),
   cr_total |-> SumSeq(validator_amounts(cr_transactions)),
   status |-> IF Len(cr_transactions) > 0 /\ tot_payment = 0
                THEN "INVALID" ELSE "VALID"]

\* Tot payment results: one row per entry of card_tot_payment.
generate_totpay_results(card_tot_payment, card_transactions) ==
  [i \in 1..Len(card_tot_payment) |->
    validator_totpay_row(card_tot_payment[i].k, card_tot_payment[i].v,
      SelectSeq(DictGet(card_transactions, card_tot_payment[i].k, <<>>),
                LAMBDA t : t.direction = CR))]

\* pattern = re.compile(r"^01(02(03)*04)((02|03)(03)*04)*$"), without its
\* anchors
validator_pattern ==
  ReCat(<<ReLit(T01),
          ReCat(<<ReLit(T02), ReStar(ReLit(T03)), ReLit(T04)>>),
          ReStar(ReCat(<<ReAlt(<<ReLit(T02), ReLit(T03)>>),
                         ReStar(ReLit(T03)), ReLit(T04)>>))>>)

validator_sequence_row(customer, seq) ==
  [customer |-> customer,
   sequence |-> join(<<"-", ">">>, seq),
   status |-> IF ~regex_match(validator_pattern, join(<<>>, seq)) THEN "INVALID" ELSE "VALID"]

\* Sequence results: one row per entry of customer_sequences.
generate_sequence_results(customer_sequences) ==
  [i \in 1..Len(customer_sequences) |->
    validator_sequence_row(customer_sequences[i].k, customer_sequences[i].v)]

\* Generate results and return them.
validator_results(s) ==
  [s EXCEPT
    !.structure_results = generate_structure_results(s.card_records),
    !.duplicate_transactions =
      generate_duplicate_results(s.transaction_tracker),
    !.tot_payment_results =
      generate_totpay_results(s.card_tot_payment, s.card_transactions),
    !.sequence_results = generate_sequence_results(s.customer_sequences),
    !.pc = "done"]

\* What follows the loop of process_file.
validator_finish(s, card_type) ==
  validator_results(validator_close_block(s, card_type))

----------------------------------------------------------------------------
(* Files: lines in the PTSTMT layout *)

\* text written from column pos on
Place(pos, text) == [p \in pos..(pos + Len(text) - 1) |-> text[p - pos + 1]]

\* A newline-terminated line of len characters.
TextLine(len, ch) == [len |-> len, ch |-> ch @@ Place(len, <<"\n">>)]

\* A numeric field as the layout writes it: digits, then "-" when negative.
NumText(n) == IF n >= 0 THEN py_str(n) ELSE py_str(0 - n) \o <<"-">>

\* A customer record: the customer identifier in columns 4-18.
CustomerLine(customer) == TextLine(19, Place(1, T01) @@ Place(4, customer))

\* A record of the given type with the header fields at the columns both
\* engines read them from; h gives the text of each field.
HeaderLine(type, h) ==
  TextLine(901,
    Place(1, type) @@ Place(4, h.customer) @@ Place(28, h.card)
      @@ Place(264, h.amount_due) @@ Place(279, h.cr_limit)
      @@ Place(294, h.avl_actual) @@ Place(324, h.prev)
      @@ Place(354, h.tot_payment) @@ Place(399, h.int)
      @@ Place(414, h.new_bal) @@ Place(891, h.instl))

\* A detail record; t gives the text of each field.
DetailLine(t) ==
  TextLine(165,
    Place(1, T03) @@ Place(28, t.card) @@ Place(82, t.posting)
      @@ Place(90, t.detail) @@ Place(149, t.amount) @@ Place(163, t.dir))

TrailerLine == TextLine(3, Place(1, T04))

\* A line of no known record type (a blank line).
BlankLine == TextLine(1, <<>>)

----------------------------------------------------------------------------
(* The run *)

VARIABLES
  card_type,    \* params["card_type"] / PTSTMTValidator.card_type
  total_lines,  \* the number of lines of the file
  file,         \* the lines read so far
  rt,           \* the streaming engine (bridge.py)
  pv,           \* the class-based engine (PTSTMTValidator)
  args,         \* the arguments of a function of data_utils called alone
  ret           \* what that call returned, <<>> before it

vars == <<card_type, total_lines, file, rt, pv, args, ret>>

CardTypes == {"REGULAR", "CORPORATE"}

\* A run over a file of at most max lines.
InitFile(max) ==
  /\ card_type \in CardTypes
  /\ total_lines \in 0..max
  /\ file = <<>>
  /\ rt = RealtimeInit
  /\ pv = ValidatorInit
  /\ args = <<>>
  /\ ret = <<>>

\* The streaming engine reads the line; an exception ends its run.
RealtimeLine(line) ==
  rt' = IF rt.pc = "scan"
          THEN realtime_line(rt, line, card_type, total_lines)
          ELSE rt

\* The class-based engine reads the line.
ValidatorLine(line) ==
  pv' = IF pv.pc = "scan"
          THEN validator_line(pv, line, card_type, total_lines)
          ELSE pv

\* Both engines are handed the next line of the file.
ReadLine(Lines) ==
  /\ Len(file) < total_lines
  /\ "scan" \in {rt.pc, pv.pc}
  /\ \E line \in Lines :
       /\ file' = Append(file, line)
       /\ RealtimeLine(line)
       /\ ValidatorLine(line)
  /\ UNCHANGED <<card_type, total_lines, args, ret>>

\* The file is exhausted: each engine still running leaves its loop.
EndOfStream ==
  /\ Len(file) = total_lines
  /\ "scan" \in {rt.pc, pv.pc}
  /\ rt' = IF rt.pc = "scan"
             THEN realtime_finish(rt, card_type, total_lines) ELSE rt
  /\ pv' = IF pv.pc = "scan" THEN validator_finish(pv, card_type) ELSE pv
  /\ UNCHANGED <<card_type, total_lines, file, args, ret>>

----------------------------------------------------------------------------
(* The files checked *)

\* The longest file.
MaxLines == 4

CardX == <<"X">>

CardY == <<"Y">>

CustA == <<"A">>

CustB == <<"B">>

Blank == <<>>

\* Posting dates: the day before from_date, from_date, a day inside the
\* window, until_date, the day after it, a day of the year before whose
\* month and day are the largest, and a date that does not exist.
D1015 == <<"2", "0", "2", "5", "1", "0", "1", "5">>

D1016 == <<"2", "0", "2", "5", "1", "0", "1", "6">>

D1101 == <<"2", "0", "2", "5", "1", "1", "0", "1">>

D1115 == <<"2", "0", "2", "5", "1", "1", "1", "5">>

D1116 == <<"2", "0", "2", "5", "1", "1", "1", "6">>

D1231 == <<"2", "0", "2", "4", "1", "2", "3", "1">>

D1131 == <<"2", "0", "2", "5", "1", "1", "3", "1">>

\* A header of type 02 with the given numeric fields.
Header(card, prev, int, new_bal, tot_payment) ==
  HeaderLine(T02,
    [customer |-> Blank, card |-> card, amount_due |-> NumText(50000),
     cr_limit |-> NumText(1000), avl_actual |-> NumText(900),
     prev |-> NumText(prev), tot_payment |-> NumText(tot_payment),
     int |-> NumText(int), new_bal |-> NumText(new_bal),
     instl |-> NumText(0)])

Detail(card, posting, detail, amount, dir) ==
  DetailLine([card |-> card, posting |-> posting, detail |-> detail,
              amount |-> amount, dir |-> dir])

\* Files of customer, header, detail and trailer records: two cards,
\* debits, credits, a negative amount and an undecodable posting date.
ScanLines ==
  { CustomerLine(CustA),
    Header(CardX, 100, 5, 115, 0),
    Header(CardY, 0, 0, 0, 7),
    Detail(CardX, D1016, <<"s">>, NumText(30), DR),
    Detail(CardX, D1016, <<"s">>, NumText(20), CR),
    Detail(CardX, D1016, <<"s">>, NumText(-5), DR),
    Detail(CardX, D1131, <<"s">>, NumText(30), DR),
    TrailerLine }

Init == InitFile(MaxLines)

Next == ReadLine(ScanLines) \/ EndOfStream

Spec == Init /\ [][Next]_vars

----------------------------------------------------------------------------
(* What the file says, read directly from its lines *)

\* The lines an engine has been handed (the last one included when it
\* raised there).
LinesRead(e) == SubSeq(file, 1, e.processed)

RecordTypeOf(line) == PySlice(line, 1, 2)

\* The positions, in f, of the records of type target.
HeaderPositions(f, target) ==
  SelectSeq([i \in 1..Len(f) |-> i], LAMBDA i : RecordTypeOf(f[i]) = target)

\* The position just after block k: the next header, or the end of f.
BlockEnd(f, pos, k) == IF k < Len(pos) THEN pos[k + 1] ELSE Len(f) + 1

IsDetailOf(line, dir) ==
  RecordTypeOf(line) = T03 /\ slice_str(line, 163, 164) = dir

AmountOf(line) == slice_num(line, 149, 162).value

\* The sum of the amounts of the detail records of direction dir strictly
\* between positions lo and hi of f.
DetailSum(f, lo, hi, dir) ==
  SumSeq([n \in 1..(hi - lo - 1) |->
           IF IsDetailOf(f[lo + n], dir) THEN AmountOf(f[lo + n]) ELSE 0])

RealtimeTarget == realtime_target_header_type(card_type)

ValidatorTarget == validator_target_header_type(card_type)

\* The number of blocks an engine has validated so far.
Validated(e) == Len(e.validations) \div 3

----------------------------------------------------------------------------
(* C1 *)

\* The blocks of the lines read that are closed: all of them once the run
\* has returned, all but the last while it scans.
ClosedBlocks(e, target) ==
  IF e.pc = "done" THEN Len(HeaderPositions(LinesRead(e), target))
  ELSE Max(0, Len(HeaderPositions(LinesRead(e), target)) - 1)

EveryBlockOnce(e, target) ==
  /\ Len(e.validations) = 3 * ClosedBlocks(e, target)
  /\ \A k \in 1..ClosedBlocks(e, target) : \A j \in 1..3 :
       e.validations[3 * (k - 1) + j].card =
         slice_str(LinesRead(e)[HeaderPositions(LinesRead(e), target)[k]],
                   28, 43)

\* C1: at every point of a run the validations list holds exactly three
\* rows per closed block, in the order of the headers and with their card
\* identifiers: a block is closed by the next target header, the last one by
\* the end of the stream, so after the run there are three rows per target
\* header of the file.
C1_EveryBlockValidatedOnce ==
  /\ EveryBlockOnce(rt, RealtimeTarget)
  /\ EveryBlockOnce(pv, ValidatorTarget)

\* Both engines have returned from a file of two blocks with detail lines.
C1_Witness ==
  /\ rt.pc = "done" /\ pv.pc = "done"
  /\ Len(rt.validations) = 6 /\ Len(pv.validations) = 6
  /\ \E i \in 1..Len(file) : RecordTypeOf(file[i]) = T03

----------------------------------------------------------------------------
(* C2 *)

\* The expected new balance of block k of the lines read, from the file.
BlockBalance(f, pos, k) ==
  DetailSum(f, pos[k], BlockEnd(f, pos, k), DR)
    + slice_num(f[pos[k]], 324, 338).value
    + slice_num(f[pos[k]], 399, 413).value
    - DetailSum(f, pos[k], BlockEnd(f, pos, k), CR)

BalancesFromOwnBlock(e, target) ==
  \A k \in 1..Validated(e) :
    /\ e.validations[3 * k - 2].field = "NEW_BAL"
    /\ e.validations[3 * k - 2].expected =
         BlockBalance(LinesRead(e), HeaderPositions(LinesRead(e), target), k)

----------------------------------------------------------------------------
(* Blocks: files whose balances lie around zero and around the floor *)

\* A record of the given type whose header fields hold the given texts.
BlockHeader(type, card, prev, int, cr_limit, instl, new_bal, avl_actual, amount_due) ==
  HeaderLine(type,
    [customer |-> CustA, card |-> card, amount_due |-> amount_due,
     cr_limit |-> cr_limit, avl_actual |-> avl_actual, prev |-> prev,
     tot_payment |-> NumText(0), int |-> int, new_bal |-> new_bal,
     instl |-> instl])

\* A header whose balance before its details is 999989: it reports the
\* values of a balance of 999990, for which 5% is 49999.5.
FloorHeader(type) ==
  BlockHeader(type, CardX, NumText(999980), NumText(9), NumText(1000000),
              NumText(5), NumText(999990), NumText(5), NumText(50000))

\* A header whose balance before its details is zero; it reports zero.
ZeroHeader ==
  BlockHeader(T02, CardY, NumText(0), NumText(0), NumText(1000), NumText(0),
              NumText(0), NumText(1000), NumText(0))

\* A header whose reported balance is a superscript digit.
BrokenHeader ==
  BlockHeader(T02, CardY, NumText(0), NumText(0), NumText(1000), NumText(0),
              <<"^2">>, NumText(1000), NumText(0))

\* Two headers of type 02 and one of type 01, debits of 1 and 20, a credit
\* of 1, and a header that cannot be decoded.
BlockLines ==
  { FloorHeader(T02), FloorHeader(T01), ZeroHeader, BrokenHeader,
    Detail(CardX, D1016, <<"s">>, NumText(1), DR),
    Detail(CardX, D1016, <<"s">>, NumText(20), DR),
    Detail(CardX, D1016, <<"s">>, NumText(1), CR) }

NextBlock == ReadLine(BlockLines) \/ EndOfStream

SpecBlock == Init /\ [][NextBlock]_vars

----------------------------------------------------------------------------
(* C3 *)

\* x * 0.05 rounded to the nearest integer, halves up, for x > 0.
RoundHalfUpOfFivePercent(x) == (x + 10) \div 20

\* The minimum payment the rule gives for a balance.
MinPaymentRule(balance) ==
  IF balance <= 0 THEN 0
  ELSE IF card_type = "CORPORATE" THEN balance
  ELSE Max(50000, RoundHalfUpOfFivePercent(balance))

MinPaymentsFollowRule(e) ==
  \A k \in 1..Validated(e) :
    /\ e.validations[3 * k].field = "PT_SH_MIN_PAYMENT"
    /\ e.validations[3 * k].expected =
         MinPaymentRule(e.validations[3 * k - 2].expected)
    /\ (card_type = "REGULAR" /\ e.validations[3 * k - 2].expected > 0)
         => e.validations[3 * k].expected >= 50000

\* C3: the expected minimum payment of every validated block is 0 when the
\* block's expected new balance is <= 0; otherwise the balance itself for
\* CORPORATE and the larger of 50000 and the balance's 5% rounded half up
\* for REGULAR, so never below 50000 for a positive REGULAR balance.
C3_MinPaymentRule ==
  /\ MinPaymentsFollowRule(rt)
  /\ MinPaymentsFollowRule(pv)

\* A REGULAR file: a block of balance 1000010 (5% is 50000.5, so 50001) and
\* a block of balance zero (payment 0 despite the floor).
C3_Witness ==
  /\ card_type = "REGULAR" /\ rt.pc = "done" /\ pv.pc = "done"
  /\ Len(rt.validations) = 6 /\ Len(pv.validations) = 6
  /\ rt.validations[1].expected = 1000010 /\ rt.validations[3].expected = 50001
  /\ pv.validations[1].expected = 1000010 /\ pv.validations[3].expected = 50001
  /\ rt.validations[4].expected = 0 /\ rt.validations[6].expected = 0
  /\ pv.validations[4].expected = 0 /\ pv.validations[6].expected = 0

----------------------------------------------------------------------------
(* C4 *)

\* The header of block k of the lines engine e has read.
HeaderOf(e, target, k) == LinesRead(e)[HeaderPositions(LinesRead(e), target)[k]]

\* The row a comparison of expected with the header's value must be.
RowIs(row, card, field, expected, actual) ==
  /\ row.card = card /\ row.field = field
  /\ row.expected = expected /\ row.actual = actual
  /\ row.status \in {"PASS", "FAIL"}
  /\ row.status = "PASS" <=> expected = actual

ThreeRowsPerBlock(e, target) ==
  /\ Len(e.validations) % 3 = 0
  /\ \A k \in 1..Validated(e) :
       LET h == HeaderOf(e, target, k)
           balance == e.validations[3 * k - 2].expected
       IN  /\ RowIs(e.validations[3 * k - 2], slice_str(h, 28, 43), "NEW_BAL",
                    balance, slice_num(h, 414, 428).value)
           /\ RowIs(e.validations[3 * k - 1], slice_str(h, 28, 43),
                    "AVL_CR_LIMIT",
                    slice_num(h, 279, 292).value - balance
                      - slice_num(h, 891, 900).value,
                    slice_num(h, 294, 308).value)
           /\ RowIs(e.validations[3 * k], slice_str(h, 28, 43),
                    "PT_SH_MIN_PAYMENT", e.validations[3 * k].expected,
                    slice_num(h, 264, 277).value)

\* A field of the line cannot be decoded by the branch that reads it.
Undecodable(line, target) ==
  \/ /\ RecordTypeOf(line) = target
     /\ \E f \in {<<324, 338>>, <<399, 413>>, <<279, 292>>, <<891, 900>>,
                  <<414, 428>>, <<264, 277>>, <<294, 308>>, <<354, 367>>} :
          slice_num(line, f[1], f[2]).raises
  \/ /\ RecordTypeOf(line) # target /\ RecordTypeOf(line) = T03
     /\ \/ to_date(extract_posting_date(line)).raises
        \/ slice_num(line, 149, 162).raises

\* The run of engine e ended in an exception only on an undecodable line.
AbortsOnlyOnUndecodable(e, target) ==
  e.pc = "failed" => Undecodable(file[e.processed], target)

Statuses(e) == [i \in 1..Len(e.validations) |-> e.validations[i].status]

----------------------------------------------------------------------------
(* C5 *)

StatOf(e, dir) == DictGet(e.current_stats, dir, 0)

\* The step hands a line to engine e and e stays in its loop.
Scanned(e, e2) ==
  /\ Len(file') = Len(file) + 1
  /\ e.pc = "scan" /\ e2.pc = "scan"

LineNow == file'[Len(file')]

SumsNeverDecrease(e, e2, target) ==
  Scanned(e, e2) =>
    IF RecordTypeOf(LineNow) = target
      THEN StatOf(e2, DR) = 0 /\ StatOf(e2, CR) = 0
      ELSE e.current_header # <<>> =>
             /\ StatOf(e2, DR) >= StatOf(e, DR)
             /\ StatOf(e2, CR) >= StatOf(e, CR)

\* C5 as stated: both running sums are zero right after a target header,
\* and while the block stays open neither sum decreases from one processed
\* record to the next, whatever the detail records hold.
C5_SumsNeverDecrease ==
  [][/\ SumsNeverDecrease(rt, rt', RealtimeTarget)
     /\ SumsNeverDecrease(pv, pv', ValidatorTarget)]_vars

Added(line, dir) == IF IsDetailOf(line, dir) THEN AmountOf(line) ELSE 0

SumsFollowAmounts(e, e2, target) ==
  Scanned(e, e2) =>
    IF RecordTypeOf(LineNow) = target
      THEN StatOf(e2, DR) = 0 /\ StatOf(e2, CR) = 0
      ELSE e.current_header # <<>> =>
             /\ StatOf(e2, DR) = StatOf(e, DR) + Added(LineNow, DR)
             /\ StatOf(e2, CR) = StatOf(e, CR) + Added(LineNow, CR)

\* C5 with negative amounts: both running sums are zero right after a target header;
\* while the block stays open a detail record adds its decoded amount, which
\* is negative for a field with a trailing "-", to the sum of its own
\* direction and leaves the other sum unchanged, and every other record
\* leaves both unchanged.
C5_SumsFollowAmounts ==
  [][/\ SumsFollowAmounts(rt, rt', RealtimeTarget)
     /\ SumsFollowAmounts(pv, pv', ValidatorTarget)]_vars

\* A block is open and its debit sum has gone below zero.
C5_Witness ==
  /\ rt.pc = "scan" /\ rt.current_header # <<>> /\ StatOf(rt, DR) < 0
  /\ pv.pc = "scan" /\ pv.current_header # <<>> /\ StatOf(pv, DR) < 0

----------------------------------------------------------------------------
(* Dates: files whose posting dates lie around the window *)

\* Details posted the day before from_date, on from_date, on until_date,
\* the day after it, and on the last day of the year before; a customer
\* record and a header.
DateLines ==
  { Detail(CardX, D1015, <<"s">>, NumText(30), DR),
    Detail(CardX, D1016, <<"s">>, NumText(30), DR),
    Detail(CardX, D1115, <<"s">>, NumText(30), DR),
    Detail(CardY, D1116, <<"s">>, NumText(30), CR),
    Detail(CardX, D1231, <<"s">>, NumText(30), DR),
    CustomerLine(CustA),
    Header(CardX, 100, 5, 115, 0) }

NextDates == ReadLine(DateLines) \/ EndOfStream

SpecDates == Init /\ [][NextDates]_vars

----------------------------------------------------------------------------
(* C6 *)

\* The eight characters of a detail record's posting date.
PostingText(line) == PySlice(line, 82, 89)

\* A number that orders the dates written as YYYYMMDD: no month has more
\* than 31 days and no year more than 12 months.
DayNumber(y, m, d) == (y * 12 + m) * 31 + d

PostingDay(line) ==
  DayNumber(DecimalValue(SubSeq(PostingText(line), 1, 4)),
            DecimalValue(SubSeq(PostingText(line), 5, 6)),
            DecimalValue(SubSeq(PostingText(line), 7, 8)))

\* The detail record is posted strictly outside the window of the run,
\* 2025-10-16 to 2025-11-15.
OutsideWindow(line) ==
  /\ RecordTypeOf(line) = T03
  /\ \/ PostingDay(line) < DayNumber(2025, 10, 16)
     \/ PostingDay(line) > DayNumber(2025, 11, 15)

\* The text of the line without its line end.
WithoutLineEnd(line) ==
  [len |-> line.len - 1, ch |-> [p \in DOMAIN line.ch \ {line.len} |-> line.ch[p]]]

\* "YYYY-MM-DD" for the posting date of the line.
PostingShown(line) ==
  SubSeq(PostingText(line), 1, 4) \o <<"-">> \o SubSeq(PostingText(line), 5, 6)
    \o <<"-">> \o SubSeq(PostingText(line), 7, 8)

\* A posting date as "YYYY-MM-DD": dated says it is kept as a date.
Shown(posting, dated) == IF dated THEN date_str(posting) ELSE posting

FilteredIsOutsideWindow(e, dated) ==
  LET outside == SelectSeq(LinesRead(e), OutsideWindow)
  IN  /\ Len(e.filtered) = Len(outside)
      /\ \A i \in 1..Len(outside) :
           /\ e.filtered[i].line = WithoutLineEnd(outside[i])
           /\ e.filtered[i].card = slice_str(outside[i], 28, 43)
           /\ Shown(e.filtered[i].posting, dated) = PostingShown(outside[i])

\* C6: at every point of a run, and so after it, the filtered-transactions
\* list holds, in file order, exactly the detail records read whose posting
\* date is strictly before from_date or strictly after until_date, with
\* their card number and posting date: a record posted on from_date or on
\* until_date is not in it, one posted the day before from_date or the day
\* after until_date is, whatever customer or block is open.
C6_FilteredIsOutsideWindow ==
  /\ FilteredIsOutsideWindow(rt, FALSE)
  /\ FilteredIsOutsideWindow(pv, TRUE)

\* A header, then details posted the day before from_date, on from_date and
\* the day after until_date: the first and the last are filtered, the one
\* on the boundary is not.
C6_Witness ==
  /\ rt.pc = "done" /\ pv.pc = "done" /\ Len(file) = 4
  /\ RecordTypeOf(file[1]) = T02
  /\ PostingText(file[2]) = D1015 /\ PostingText(file[3]) = D1016
  /\ PostingText(file[4]) = D1116
  /\ Len(rt.filtered) = 2 /\ Len(pv.filtered) = 2
  /\ rt.filtered[2].line = WithoutLineEnd(file[4])
  /\ pv.filtered[2].line = WithoutLineEnd(file[4])

----------------------------------------------------------------------------
(* Duplicates: files of details that differ in one field of the key *)

\* A detail record, and five more that differ from it in the card, the
\* posting date, the detail text, the amount or the direction only; a
\* header.
DupLines ==
  { Detail(CardX, D1016, <<"s">>, NumText(30), DR),
    Detail(CardY, D1016, <<"s">>, NumText(30), DR),
    Detail(CardX, D1101, <<"s">>, NumText(30), DR),
    Detail(CardX, D1016, <<"t">>, NumText(30), DR),
    Detail(CardX, D1016, <<"s">>, NumText(31), DR),
    Detail(CardX, D1016, <<"s">>, NumText(30), CR),
    Header(CardX, 100, 5, 115, 0) }

NextDup == ReadLine(DupLines) \/ EndOfStream

SpecDup == Init /\ [][NextDup]_vars

----------------------------------------------------------------------------
(* C7 *)

\* The five values of a detail record, the posting date as "YYYY-MM-DD".
FiveValues(line) ==
  <<slice_str(line, 28, 43), PostingShown(line), slice_str(line, 90, 129),
    AmountOf(line), slice_str(line, 163, 164)>>

\* The five values of each detail record of f, in file order.
RECURSIVE DetailValues(_)
DetailValues(f) ==
  IF f = <<>> THEN <<>>
  ELSE (IF RecordTypeOf(Head(f)) = T03 THEN <<FiveValues(Head(f))>> ELSE <<>>)
         \o DetailValues(Tail(f))

\* The number of entries of values equal to v.
Occurrences(values, v) ==
  Cardinality({i \in 1..Len(values) : values[i] = v})

\* The five values each tracked key stands for, in the tracker's order.
RECURSIVE KeyValues(_, _)
KeyValues(tracker, dated) ==
  IF tracker = <<>> THEN <<>>
  ELSE <<<<Head(tracker).k[1], Shown(Head(tracker).k[2], dated),
           Head(tracker).k[3], Head(tracker).k[4], Head(tracker).k[5]>>>>
         \o KeyValues(Tail(tracker), dated)

\* The values of the detail records engine e has read, given those of the
\* whole file so far.
ValuesRead(e, all) ==
  IF e.processed = Len(file) THEN all ELSE DetailValues(LinesRead(e))

\* The tracker of engine e counts the records read, key by key.
CountsAreRecordCounts(e, dated, values) ==
  LET keys == KeyValues(e.transaction_tracker, dated)
  IN  /\ \A i \in 1..Len(keys) :
           /\ e.transaction_tracker[i].v = Occurrences(values, keys[i])
           /\ Occurrences(keys, keys[i]) = 1
      /\ \A n \in 1..Len(values) : Occurrences(keys, values[n]) = 1

\* The five values each row of the duplicate report shows.
RECURSIVE RowValues(_, _)
RowValues(rows, dated) ==
  IF rows = <<>> THEN <<>>
  ELSE <<<<Head(rows).card, Shown(Head(rows).posting_date, dated),
           Head(rows).trx_detail, Head(rows).amount, Head(rows).direction>>>>
         \o RowValues(Tail(rows), dated)

\* The report rows of a finished run: one per five values met more than once.
ReportIsRepeatedKeys(e, rows, dated, values) ==
  e.pc = "done" =>
    LET shown == RowValues(rows, dated)
    IN  /\ \A i \in 1..Len(rows) :
             /\ rows[i].count = Occurrences(values, shown[i])
             /\ rows[i].count > 1
             /\ Occurrences(shown, shown[i]) = 1
        /\ \A n \in 1..Len(values) :
             Occurrences(values, values[n]) > 1
               => Occurrences(shown, values[n]) = 1

\* C7: for every key (card, posting date, detail text, amount, direction)
\* the tracked count is the number of detail records read with exactly those
\* five values, wherever they stand and whatever block or customer is open;
\* after the run the duplicate report has exactly one row for each key
\* counted more than once, carrying that count, and no row for the others.
C7_DuplicateCounts ==
  LET all == DetailValues(file)
  IN  /\ CountsAreRecordCounts(rt, FALSE, ValuesRead(rt, all))
      /\ CountsAreRecordCounts(pv, TRUE, ValuesRead(pv, all))
      /\ ReportIsRepeatedKeys(rt, rt.duplicate_transactions, FALSE, all)
      /\ ReportIsRepeatedKeys(pv, pv.duplicate_transactions, TRUE, all)

\* Three identical detail records with a different one among them: one row,
\* with count 3.
C7_Witness ==
  /\ rt.pc = "done" /\ pv.pc = "done" /\ Len(file) = 4
  /\ file[1] = file[3] /\ file[1] = file[4] /\ file[2] # file[1]
  /\ RecordTypeOf(file[2]) = T03
  /\ Len(rt.duplicate_transactions) = 1
  /\ rt.duplicate_transactions[1].count = 3
  /\ Len(pv.duplicate_transactions) = 1
  /\ pv.duplicate_transactions[1].count = 3

----------------------------------------------------------------------------
(* Payments: files of headers that declare a total payment *)

\* A header of type 02 that declares the total payment tot_payment.
PayHeader(card, tot_payment) == Header(card, 0, 0, 0, tot_payment)

\* Card X declaring 0 and declaring 7, card Y declaring 0, a header with a
\* blank card identifier; credits of 20 and of 0 and a debit of 30.
PayLines ==
  { PayHeader(CardX, 0), PayHeader(CardX, 7), PayHeader(CardY, 0),
    PayHeader(Blank, 0),
    Detail(CardX, D1016, <<"s">>, NumText(20), CR),
    Detail(CardX, D1016, <<"s">>, NumText(0), CR),
    Detail(CardX, D1016, <<"s">>, NumText(30), DR) }

NextPay == ReadLine(PayLines) \/ EndOfStream

SpecPay == Init /\ [][NextPay]_vars

----------------------------------------------------------------------------
(* C8 *)

\* The card identifier of each line's open block: none before the first
\* target header, then the identifier of the latest target header.
RECURSIVE OpenCards(_, _, _)
OpenCards(f, target, open) ==
  IF f = <<>> THEN <<>>
  ELSE IF RecordTypeOf(Head(f)) = target
    THEN <<<<>>>> \o OpenCards(Tail(f), target, <<slice_str(Head(f), 28, 43)>>)
    ELSE <<open>> \o OpenCards(Tail(f), target, open)

\* The (direction, amount) of a detail record.
PaymentEntry(line) ==
  [direction |-> slice_str(line, 163, 164), amount |-> AmountOf(line)]

\* After the run the aggregate of every non-blank card holds the entry of
\* every detail record read while a block of that card was open.
AggregateHoldsEveryDetail(e, target) ==
  e.pc = "done" =>
    LET open == OpenCards(file, target, <<>>)
    IN  \A n \in 1..Len(file) :
          (RecordTypeOf(file[n]) = T03 /\ open[n] # <<>> /\ open[n] # <<Blank>>)
            => \E i \in 1..Len(DictGet(e.card_transactions, open[n][1], <<>>)) :
                 DictGet(e.card_transactions, open[n][1], <<>>)[i]
                   = PaymentEntry(file[n])

\* C8, for the card identifiers that are not blank: at the end of the run
\* the payment aggregate of a card that appears in a target header holds the
\* (direction, amount) of every detail record read while a block of that
\* card was open, also when the card opens more than one block.
C8_AggregateHoldsEveryDetail ==
  /\ AggregateHoldsEveryDetail(rt, RealtimeTarget)
  /\ AggregateHoldsEveryDetail(pv, ValidatorTarget)

----------------------------------------------------------------------------
(* C9 *)

\* The card identifiers of the target headers of f.
HeaderCards(f, target) ==
  {slice_str(f[HeaderPositions(f, target)[k]], 28, 43) :
     k \in 1..Len(HeaderPositions(f, target))}

\* The total payment the latest target header of the card declares.
DeclaredTotal(f, target, card) ==
  LET of == SelectSeq(HeaderPositions(f, target),
                      LAMBDA p : slice_str(f[p], 28, 43) = card)
  IN  slice_num(f[of[Len(of)]], 354, 367).value

RECURSIVE CreditTotal(_)
CreditTotal(list) ==
  IF list = <<>> THEN 0
  ELSE (IF Head(list).direction = CR THEN Head(list).amount ELSE 0)
         + CreditTotal(Tail(list))

HasCredit(list) == \E i \in 1..Len(list) : list[i].direction = CR

\* The row is the one the card's aggregate and declared total call for.
PaymentRowIs(row, list, declared) ==
  /\ row.tot_payment = declared
  /\ row.has_cr = (IF HasCredit(list) THEN "Yes" ELSE "No")
  /\ row.cr_total = CreditTotal(list)
  /\ row.status \in {"VALID", "INVALID"}
  /\ row.status = "INVALID" <=> (HasCredit(list) /\ declared = 0)

PaymentReportFollowsRule(e, rows, target) ==
  e.pc = "done" =>
    /\ {rows[i].card : i \in 1..Len(rows)} = HeaderCards(file, target)
    /\ Len(rows) = Cardinality(HeaderCards(file, target))
    /\ \A i \in 1..Len(rows) :
         PaymentRowIs(rows[i], DictGet(e.card_transactions, rows[i].card, <<>>),
                      DeclaredTotal(file, target, rows[i].card))

\* C9: after the run the payment-total report has one row per card
\* identifier seen in a target header; the row is INVALID exactly when the
\* card's aggregated list holds at least one CR entry and the declared total
\* payment is 0, and VALID otherwise; cr_total is the sum of the amounts of
\* the CR entries.
C9_PaymentReportFollowsRule ==
  /\ PaymentReportFollowsRule(rt, rt.tot_payment_results, RealtimeTarget)
  /\ PaymentReportFollowsRule(pv, pv.tot_payment_results, ValidatorTarget)

\* Card Y declares 0 and has a credit of 20: INVALID.  Card X declares 7 and
\* has a credit of amount 0: VALID, with has_cr "Yes" and cr_total 0.
C9_Witness ==
  /\ rt.pc = "done" /\ pv.pc = "done"
  /\ Len(rt.tot_payment_results) = 2 /\ Len(pv.tot_payment_results) = 2
  /\ \A rows \in {rt.tot_payment_results, pv.tot_payment_results} :
       /\ rows[1].card = CardY /\ rows[1].status = "INVALID"
       /\ rows[1].cr_total = 20
       /\ rows[2].card = CardX /\ rows[2].status = "VALID"
       /\ rows[2].has_cr = "Yes" /\ rows[2].cr_total = 0
       /\ rows[2].tot_payment = 7

----------------------------------------------------------------------------
(* Sequences: files of one customer's records in every order *)

\* The longest file of records of one customer.
MaxSeqLines == 6

\* A customer record, a header, a detail and a trailer.
SeqLines ==
  { CustomerLine(CustA),
    Header(CardX, 100, 5, 115, 0),
    Detail(CardX, D1016, <<"s">>, NumText(30), DR),
    TrailerLine }

InitSeq == InitFile(MaxSeqLines)

NextSeq == ReadLine(SeqLines) \/ EndOfStream

SpecSeq == InitSeq /\ [][NextSeq]_vars

----------------------------------------------------------------------------
(* C10 *)

\* The automaton of 01 (02 (03)* 04) ((02|03) (03)* 04)*: "start" before the
\* 01, "customer" after it, "first" inside the first block, "closed" after
\* a 04 (the accepting state), "later" inside a later block, "dead" after a
\* code no state allows.
Step(state, code) ==
  CASE state = "start" /\ code = T01 -> "customer"
    [] state = "customer" /\ code = T02 -> "first"
    [] state = "first" /\ code = T03 -> "first"
    [] state = "first" /\ code = T04 -> "closed"
    [] state = "closed" /\ code \in {T02, T03} -> "later"
    [] state = "later" /\ code = T03 -> "later"
    [] state = "later" /\ code = T04 -> "closed"
    [] OTHER -> "dead"

\* The state of the automaton after the codes, fed one by one.
RECURSIVE StateAfter(_, _)
StateAfter(state, codes) ==
  IF codes = <<>> THEN state
  ELSE StateAfter(Step(state, Head(codes)), Tail(codes))

Accepted(codes) == StateAfter("start", codes) = "closed"

\* The record types of the lines of f from the first customer record on.
RECURSIVE CodesFromCustomer(_, _)
CodesFromCustomer(f, seen) ==
  IF f = <<>> THEN <<>>
  ELSE IF seen \/ RecordTypeOf(Head(f)) = T01
    THEN <<RecordTypeOf(Head(f))>> \o CodesFromCustomer(Tail(f), TRUE)
    ELSE CodesFromCustomer(Tail(f), FALSE)

SequenceReportIsAutomaton(e, rows, target) ==
  e.pc = "done" =>
    /\ Len(rows) = Len(e.customer_sequences)
    /\ \A i \in 1..Len(rows) :
         /\ rows[i].customer = e.customer_sequences[i].k
         /\ rows[i].status \in {"VALID", "INVALID"}
         /\ rows[i].status = "VALID" <=> Accepted(e.customer_sequences[i].v)
         /\ target = T02 =>
              e.customer_sequences[i].v = CodesFromCustomer(file, FALSE)

\* C10: after the run the sequence report marks a customer VALID exactly
\* when the automaton of 01 (02 (03)* 04) ((02|03) (03)* 04)*, fed the
\* customer's record types one by one in file order, ends in its accepting
\* state, and INVALID otherwise.
C10_SequenceReportIsAutomaton ==
  /\ SequenceReportIsAutomaton(rt, rt.sequence_results, RealtimeTarget)
  /\ SequenceReportIsAutomaton(pv, pv.sequence_results, ValidatorTarget)

\* 01 02 04 03 04: the second block starts with a detail record; VALID.
C10_Witness ==
  /\ rt.pc = "done" /\ pv.pc = "done"
  /\ Len(rt.sequence_results) = 1 /\ Len(pv.sequence_results) = 1
  /\ rt.customer_sequences[1].v = <<T01, T02, T04, T03, T04>>
  /\ pv.customer_sequences[1].v = <<T01, T02, T04, T03, T04>>
  /\ rt.sequence_results[1].status = "VALID"
  /\ pv.sequence_results[1].status = "VALID"

----------------------------------------------------------------------------
(* C11 *)

\* Every customer of a finished run whose recorded sequence is codes has
\* the given status in the sequence report.
SequenceHasStatus(e, codes, status) ==
  e.pc = "done" =>
    \A i \in 1..Len(e.sequence_results) :
      e.customer_sequences[i].v = codes
        => e.sequence_results[i].status = status

\* C11 as stated: a customer whose recorded sequence is 01, 03, 03, 04 is
\* reported with sequence status VALID.
C11_DetailFirstIsValid ==
  /\ SequenceHasStatus(rt, <<T01, T03, T03, T04>>, "VALID")
  /\ SequenceHasStatus(pv, <<T01, T03, T03, T04>>, "VALID")

\* C11 with the first block as the grammar has it: a customer whose recorded
\* sequence is 01, 03, 03, 04 is reported INVALID, because the first block
\* must start with 02; a block that starts with 03 is accepted from the
\* second block on, so 01, 02, 04, 03, 03, 04 is reported VALID.
C11_DetailFirstIsInvalid ==
  /\ SequenceHasStatus(rt, <<T01, T03, T03, T04>>, "INVALID")
  /\ SequenceHasStatus(pv, <<T01, T03, T03, T04>>, "INVALID")
  /\ SequenceHasStatus(rt, <<T01, T02, T04, T03, T03, T04>>, "VALID")
  /\ SequenceHasStatus(pv, <<T01, T02, T04, T03, T03, T04>>, "VALID")

\* Both engines have reported a customer whose records are 01, 03, 03, 04.
C11_Witness ==
  /\ rt.pc = "done" /\ pv.pc = "done"
  /\ Len(rt.sequence_results) = 1 /\ Len(pv.sequence_results) = 1
  /\ rt.customer_sequences[1].v = <<T01, T03, T03, T04>>
  /\ pv.customer_sequences[1].v = <<T01, T03, T03, T04>>

----------------------------------------------------------------------------
(* C12 *)

\* A REGULAR run has returned from a file of one customer record, one
\* header and one trailer, with no detail record.
NoDetailFile(e) ==
  /\ card_type = "REGULAR" /\ e.pc = "done"
  /\ CodesFromCustomer(file, TRUE) = <<T01, T02, T04>>

\* C12 as stated: for a file of one customer record, one header, no detail
\* record and one trailer (REGULAR), the customer is reported with sequence
\* status VALID and with structure status VALID, has_01 to has_04 all Yes.
C12_NoDetailAllPresent ==
  \A e \in {rt, pv} :
    NoDetailFile(e) =>
      /\ Len(e.sequence_results) = 1 /\ Len(e.structure_results) = 1
      /\ e.sequence_results[1].status = "VALID"
      /\ e.structure_results[1].status = "VALID"
      /\ e.structure_results[1].has_01 = "Yes"
      /\ e.structure_results[1].has_02 = "Yes"
      /\ e.structure_results[1].has_03 = "Yes"
      /\ e.structure_results[1].has_04 = "Yes"

\* C12 with the detail record missing: for that file the customer's sequence
\* is 01->02->04 and its status is VALID, and the structure status is
\* INVALID: has_01, has_02 and has_04 are Yes, has_03 is No and the missing
\* field is "03".
C12_NoDetailMissesDetail ==
  \A e \in {rt, pv} :
    NoDetailFile(e) =>
      /\ Len(e.sequence_results) = 1 /\ Len(e.structure_results) = 1
      /\ e.sequence_results[1].customer = CustA
      /\ e.sequence_results[1].sequence
           = <<"0", "1", "-", ">", "0", "2", "-", ">", "0", "4">>
      /\ e.sequence_results[1].status = "VALID"
      /\ e.structure_results[1].customer = CustA
      /\ e.structure_results[1].status = "INVALID"
      /\ e.structure_results[1].has_01 = "Yes"
      /\ e.structure_results[1].has_02 = "Yes"
      /\ e.structure_results[1].has_03 = "No"
      /\ e.structure_results[1].has_04 = "Yes"
      /\ e.structure_results[1].missing = <<"0", "3">>

\* Both engines have returned from that file.
C12_Witness ==
  /\ NoDetailFile(rt) /\ NoDetailFile(pv) /\ Len(file) = 3
  /\ Len(rt.structure_results) = 1 /\ Len(pv.structure_results) = 1

----------------------------------------------------------------------------
(* Customers: files of the records of several customers *)

\* Customer records of two customers and of a blank customer id, a
\* header, a detail and a trailer.
CustomerLines ==
  { CustomerLine(CustA), CustomerLine(CustB), CustomerLine(Blank),
    Header(CardX, 100, 5, 115, 0),
    Detail(CardX, D1016, <<"s">>, NumText(30), DR),
    TrailerLine }

NextCustomers == ReadLine(CustomerLines) \/ EndOfStream

SpecCustomers == Init /\ [][NextCustomers]_vars

----------------------------------------------------------------------------
(* C13 *)

\* The customer ids of the customer records of f.
CustomerIds(f) ==
  { slice_str(f[i], 3, 18) : i \in { j \in 1..Len(f) : RecordTypeOf(f[j]) = T01 } }

\* The text lists codes of two characters separated by ", ".
IsCodeList(text) ==
  /\ Len(text) % 4 = 2
  /\ \A i \in 1..Len(text) :
       /\ i % 4 = 3 => text[i] = ","
       /\ i % 4 = 0 => text[i] = " "

CodeAt(text, j) == SubSeq(text, 4 * j - 3, 4 * j - 2)

CodeCount(text) == (Len(text) + 2) \div 4

\* The place of a code in the order 01 < 02 < 03 < 04.
CodeRank(code) == CHOOSE n \in 1..4 : <<T01, T02, T03, T04>>[n] = code

\* The text lists exactly the codes of the set, each once, ascending.
ListsAscending(text, codes) ==
  /\ IsCodeList(text)
  /\ { CodeAt(text, j) : j \in 1..CodeCount(text) } = codes
  /\ \A j \in 1..(CodeCount(text) - 1) :
       CodeRank(CodeAt(text, j)) < CodeRank(CodeAt(text, j + 1))

StructureRowIsVerdict(row, types) ==
  /\ row.status \in {"VALID", "INVALID"}
  /\ row.status = "VALID" <=> {T01, T02, T03, T04} \subseteq types
  /\ row.status = "INVALID" =>
       ListsAscending(row.missing, {T01, T02, T03, T04} \ types)
  /\ row.missing = <<"-">> <=> row.status = "VALID"
  /\ \A code \in {T01, T02, T03, T04} :
       LET has == CASE code = T01 -> row.has_01 [] code = T02 -> row.has_02
                    [] code = T03 -> row.has_03 [] code = T04 -> row.has_04
       IN  has = YesNo(code \in types)

StructureReportIsVerdict(e) ==
  e.pc = "done" =>
    LET rows == e.structure_results
    IN  /\ { rows[i].customer : i \in 1..Len(rows) } = CustomerIds(file)
        /\ \A i, j \in 1..Len(rows) :
             rows[i].customer = rows[j].customer => i = j
        /\ \A i \in 1..Len(rows) :
             /\ DictHas(e.card_records, rows[i].customer)
             /\ StructureRowIsVerdict(rows[i],
                  DictGet(e.card_records, rows[i].customer, {}))

\* C13: after the run the structure report has exactly one row per
\* customer id seen in a customer record; a row is VALID exactly when all
\* of 01, 02, 03 and 04 were registered for the customer, otherwise it is
\* INVALID and its missing field lists the unregistered codes in ascending
\* order; the missing field is "-" exactly when the row is VALID.
C13_StructureReportIsVerdict ==
  StructureReportIsVerdict(rt) /\ StructureReportIsVerdict(pv)

\* Customer A, customer B, customer A again and a trailer: two rows, A
\* misses 02 and 03, B misses 02, 03 and 04.
C13_Witness ==
  /\ rt.pc = "done" /\ pv.pc = "done"
  /\ Len(rt.structure_results) = 2 /\ Len(pv.structure_results) = 2
  /\ Len(file) = 4 /\ slice_str(file[3], 3, 18) = CustA
  /\ rt.structure_results[1].customer = CustA
  /\ rt.structure_results[1].missing = <<"0", "2", ",", " ", "0", "3">>
  /\ pv.structure_results[2].customer = CustB
  /\ pv.structure_results[2].status = "INVALID"
  /\ Len(pv.structure_results[2].missing) = 10

----------------------------------------------------------------------------
(* C14 *)

\* The rows of the DATA messages of a category, in the order sent.
RECURSIVE Streamed(_, _)
Streamed(data, module) ==
  IF data = <<>> THEN <<>>
  ELSE (IF Head(data).module = module THEN Head(data).rows ELSE <<>>)
         \o Streamed(Tail(data), module)

\* C14: when a run of the streaming engine has returned, for each of
\* validations, filtered_transactions and zero_amount_transactions the
\* concatenation of the batches sent equals the list of the result: no row
\* is left unsent and none is sent twice, whether or not the file has a
\* header record.
C14_BatchesCoverLists ==
  rt.pc = "done" =>
    /\ Streamed(rt.data, "validations") = rt.validations
    /\ Streamed(rt.data, "filtered_transactions") = rt.filtered
    /\ Streamed(rt.data, "zero_amount_transactions")
         = rt.zero_amount_transactions

----------------------------------------------------------------------------
(* Order: files whose rows are told apart, long enough for a second batch *)

\* The longest file of headers and details.
MaxOrderLines == 5

\* Headers of two cards, a detail outside the window with amount 0, one
\* inside it with amount 0, and one outside it with amount 30.
OrderLines ==
  { Header(CardX, 100, 5, 115, 0),
    Header(CardY, 0, 0, 0, 7),
    Detail(CardX, D1015, <<"s">>, NumText(0), DR),
    Detail(CardY, D1016, <<"t">>, NumText(0), CR),
    Detail(CardX, D1116, <<"s">>, NumText(30), DR) }

InitOrder == InitFile(MaxOrderLines)

NextOrder == ReadLine(OrderLines) \/ EndOfStream

SpecOrder == InitOrder /\ [][NextOrder]_vars

----------------------------------------------------------------------------
(* C15 *)

\* The detail record's amount decodes to 0.
ZeroAmount(line) == RecordTypeOf(line) = T03 /\ AmountOf(line) = 0

ZeroListIsZeroAmounts(e, dated) ==
  LET zero == SelectSeq(LinesRead(e), ZeroAmount)
  IN  /\ Len(e.zero_amount_transactions) = Len(zero)
      /\ \A i \in 1..Len(zero) :
           /\ e.zero_amount_transactions[i].card = slice_str(zero[i], 28, 43)
           /\ Shown(e.zero_amount_transactions[i].posting_date, dated)
                = PostingShown(zero[i])
           /\ e.zero_amount_transactions[i].trx_detail
                = slice_str(zero[i], 90, 129)
           /\ e.zero_amount_transactions[i].amount = 0
           /\ e.zero_amount_transactions[i].direction
                = slice_str(zero[i], 163, 164)

\* What was sent of a category, followed by what waits in its batch, is
\* the list: the batches carry the rows in the list's order.
StreamedInListOrder ==
  /\ Streamed(rt.data, "validations") \o rt.val_batch = rt.validations
  /\ Streamed(rt.data, "filtered_transactions") \o rt.filter_batch
       = rt.filtered
  /\ Streamed(rt.data, "zero_amount_transactions") \o rt.zero_batch
       = rt.zero_amount_transactions

\* C15: at every point of a run the validation rows are in the file order
\* of their headers, the filtered and the zero-amount rows in the file order
\* of their detail records; the batches sent carry the rows in that order,
\* within a batch and from one batch to the next; the zero-amount list
\* holds exactly the detail records whose amount decodes to 0.
C15_RowsInFileOrder ==
  /\ EveryBlockOnce(rt, RealtimeTarget)
  /\ EveryBlockOnce(pv, ValidatorTarget)
  /\ FilteredIsOutsideWindow(rt, FALSE)
  /\ FilteredIsOutsideWindow(pv, TRUE)
  /\ ZeroListIsZeroAmounts(rt, FALSE)
  /\ ZeroListIsZeroAmounts(pv, TRUE)
  /\ StreamedInListOrder

\* Header X, header Y, a zero-amount detail of X outside the window, header
\* X, a zero-amount detail of Y: the validations, and the zero-amount rows,
\* went out in two batches each.
C15_Witness ==
  /\ rt.pc = "done" /\ Len(file) = 5
  /\ Len(rt.validations) = 9
  /\ Len(rt.zero_amount_transactions) = 2
  /\ rt.zero_amount_transactions[1].card = CardX
  /\ rt.zero_amount_transactions[2].card = CardY
  /\ Len(rt.filtered) = 1
  /\ Len(SelectSeq(rt.data, LAMBDA m : m.module = "validations")) = 2
  /\ Len(SelectSeq(rt.data, LAMBDA m : m.module = "zero_amount_transactions")) = 2

----------------------------------------------------------------------------
(* C16 *)

\* The categories computed after the scan, in the order they are sent.
PostPass ==
  <<"structure_results", "duplicate_transactions", "tot_payment_results",
    "sequence_results">>

IsPostPass(message) == \E k \in 1..4 : message.module = PostPass[k]

\* The report of a category in the result of the run.
ReportOf(e, k) ==
  CASE k = 1 -> e.structure_results [] k = 2 -> e.duplicate_transactions
    [] k = 3 -> e.tot_payment_results [] k = 4 -> e.sequence_results

\* C16: while the streaming engine scans, and after a run that failed, no
\* batch of a post-pass category has been sent; after a run that returned,
\* every line has been processed, every block validated, and the last four
\* batches sent are the structure, duplicate, payment-total and sequence
\* reports, in that order, each one whole; no batch before them is of a
\* post-pass category, so each was sent once and after every inline batch.
C16_PostPassSentOnceAtEnd ==
  /\ rt.pc # "done" =>
       \A i \in 1..Len(rt.data) : ~IsPostPass(rt.data[i])
  /\ rt.pc = "done" =>
       /\ rt.processed = total_lines /\ Len(file) = total_lines
       /\ Len(rt.validations) = 3 * Len(HeaderPositions(file, RealtimeTarget))
       /\ Len(rt.data) >= 4
       /\ \A k \in 1..4 :
            /\ rt.data[Len(rt.data) - 4 + k].module = PostPass[k]
            /\ rt.data[Len(rt.data) - 4 + k].rows = ReportOf(rt, k)
       /\ \A i \in 1..(Len(rt.data) - 4) : ~IsPostPass(rt.data[i])
       /\ rt.current_header # <<>> =>
            Streamed(rt.data, "validations") = rt.validations

\* A customer record and three headers: a batch of validations went out
\* during the scan, one after it, then the four reports.
C16_Witness ==
  /\ rt.pc = "done" /\ Len(rt.data) = 6
  /\ rt.data[1].module = "validations" /\ rt.data[2].module = "validations"
  /\ Len(rt.structure_results) = 1 /\ Len(rt.tot_payment_results) >= 1

----------------------------------------------------------------------------
(* C17 *)

\* A detail record whose posting date strptime cannot parse.
UnparseableDate(line) ==
  RecordTypeOf(line) = T03 /\ to_date(extract_posting_date(line)).raises

\* The streaming engine is handed a detail with an unparseable date.
ReadsUnparseableDate ==
  /\ rt.pc = "scan" /\ Len(file') = Len(file) + 1
  /\ UnparseableDate(file'[Len(file')])

\* C17: a detail record whose posting date cannot be parsed aborts the
\* streaming run at that record: the record is counted and nothing of it is
\* collected, no block is validated, what was sent before stays sent, no
\* post-pass batch and no report exists, the caller gets exactly one result,
\* the failure with its error description and no data; an aborted run
\* processes no later record.
C17_UnparseableDateAborts ==
  [][ /\ ReadsUnparseableDate =>
           /\ rt'.pc = "failed"
           /\ rt'.processed = Len(file')
           /\ rt'.validations = rt.validations
           /\ rt'.filtered = rt.filtered
           /\ SubSeq(rt'.data, 1, Len(rt.data)) = rt.data
           /\ \A i \in 1..Len(rt'.data) : ~IsPostPass(rt'.data[i])
           /\ \A k \in 1..4 : ReportOf(rt', k) = <<>>
           /\ main(rt') = <<[success |-> FALSE, error |-> "strptime"]>>
      /\ rt.pc = "failed" => rt' = rt
    ]_vars

\* Three headers, then a detail dated 2025-11-31: the validations of the
\* first two blocks were sent, the run failed at line 4.
C17_Witness ==
  /\ rt.pc = "failed" /\ rt.processed = 4
  /\ UnparseableDate(file[4])
  /\ Len(rt.data) = 1 /\ Len(rt.data[1].rows) = 6
  /\ main(rt) # <<>>

----------------------------------------------------------------------------
(* Progress: files long enough for the progress messages of the scan *)

\* The longest file: two thousand lines and one more.
MaxProgressLines == 2001

\* The line counts of the files: none, one, around a thousand, the longest.
ProgressTotals == {0, 1, 999, 1000, 1001, MaxProgressLines}

\* Lines of no record type, which leave the collectors alone.
ProgressLines == { BlankLine }

InitProgress ==
  /\ card_type \in CardTypes
  /\ total_lines \in ProgressTotals
  /\ file = <<>>
  /\ rt = RealtimeInit
  /\ pv = ValidatorInit
  /\ args = <<>>
  /\ ret = <<>>

NextProgress == ReadLine(ProgressLines) \/ EndOfStream

SpecProgress == InitProgress /\ [][NextProgress]_vars

----------------------------------------------------------------------------
(* C18 *)

\* The progress messages are in order and within the file.
ProgressIsMonotone(progress) ==
  /\ \A i \in 1..Len(progress) :
       /\ progress[i].total = total_lines
       /\ progress[i].processed \in 0..total_lines
  /\ \A i \in 1..(Len(progress) - 1) :
       progress[i].processed <= progress[i + 1].processed

\* C18 as stated: the streaming engine reports progress before the first
\* line is read, after every 1000th line, and at the end with the count
\* equal to total_lines; the counts never decrease and never exceed
\* total_lines.
C18_ProgressFromStart ==
  /\ ProgressIsMonotone(rt.progress)
  /\ rt.processed >= 1 =>
       /\ Len(rt.progress) >= 1
       /\ rt.progress[1].processed = 0
  /\ \A k \in 1..(rt.processed \div 1000) :
       \E i \in 1..Len(rt.progress) : rt.progress[i].processed = 1000 * k
  /\ rt.pc = "done" =>
       rt.progress[Len(rt.progress)].processed = total_lines

\* C18 without a report at the start: at every point of a run the progress
\* messages of the streaming engine are one per 1000th line read, carrying
\* that line count, followed, once the run has returned, by one message
\* whose count is total_lines; nothing is reported before the first line
\* or between the thousands; the counts never decrease and never exceed
\* total_lines.
C18_ProgressEveryThousandAndEnd ==
  /\ ProgressIsMonotone(rt.progress)
  /\ Len(rt.progress) =
       (rt.processed \div 1000) + (IF rt.pc = "done" THEN 1 ELSE 0)
  /\ \A k \in 1..(rt.processed \div 1000) :
       rt.progress[k].processed = 1000 * k
  /\ rt.pc = "done" =>
       /\ rt.processed = total_lines
       /\ rt.progress[Len(rt.progress)].processed = total_lines

\* A file of 1001 lines: one message at line 1000, one at the end.
C18_Witness ==
  /\ rt.pc = "done" /\ total_lines = 1001
  /\ Len(rt.progress) = 2
  /\ rt.progress[1].processed = 1000 /\ rt.progress[2].processed = 1001

----------------------------------------------------------------------------
(* Fields: slice_num called on its own *)

\* The longest field text.
MaxFieldLen == 3

\* Two digits, a superscript digit, the sign, a blank and a letter.
FieldChars == {"1", "2", "^2", "-", " ", "a"}

\* The texts of at most n characters.
RECURSIVE FieldTexts(_)
FieldTexts(n) ==
  IF n = 0 THEN {<<>>}
  ELSE FieldTexts(n - 1)
         \cup { Append(t, c) : t \in FieldTexts(n - 1), c \in FieldChars }

\* A line that holds the text from column 1 on, and a 1-based range that
\* may start after the text and end after the line.
InitFields ==
  /\ card_type = "REGULAR" /\ total_lines = 0 /\ file = <<>>
  /\ rt = RealtimeInit /\ pv = ValidatorInit
  /\ \E text \in FieldTexts(MaxFieldLen) :
       \E start \in 1..(MaxFieldLen + 2) :
         \E end \in start..(MaxFieldLen + 3) :
           args = [line |-> TextLine(Len(text) + 1, Place(1, text)),
                   start |-> start, end |-> end]
  /\ ret = <<>>

\* slice_num(line, start, end) is called and returns or raises.
CallSliceNum ==
  /\ ret = <<>>
  /\ ret' = <<slice_num(args.line, args.start, args.end)>>
  /\ UNCHANGED <<card_type, total_lines, file, rt, pv, args>>

NextFields == CallSliceNum

SpecFields == InitFields /\ [][NextFields]_vars

----------------------------------------------------------------------------
(* C19 *)

\* The characters of the line in the range, read one by one.
RangeText(a) ==
  [i \in 1..Max(0, Min(a.end, a.line.len) - a.start + 1) |->
    CharAt(a.line, a.start + i - 1)]

\* The range without its leading and trailing whitespace.
Trimmed(a) ==
  LET t == RangeText(a)
      inner == {i \in 1..Len(t) : t[i] \notin Whitespace}
  IN  IF inner = {} THEN <<>>
      ELSE LET lo == CHOOSE j \in inner : \A k \in inner : j <= k
               hi == CHOOSE j \in inner : \A k \in inner : j >= k
           IN  [i \in 1..(hi - lo + 1) |-> t[lo + i - 1]]

AllDecimal(t) == t # <<>> /\ \A i \in 1..Len(t) : t[i] \in Digits

\* A plain decimal number, optionally followed by "-".
PlainNumber(t) ==
  \/ AllDecimal(t)
  \/ t # <<>> /\ t[Len(t)] = "-" /\ AllDecimal(SubSeq(t, 1, Len(t) - 1))

\* C19: slice_num never raises, whatever the line holds, and returns 0
\* whenever the trimmed field is not a plain decimal number optionally
\* followed by "-".
C19_SliceNumNeverRaises ==
  ret # <<>> =>
    /\ ~ret[1].raises
    /\ ~PlainNumber(Trimmed(args)) => ret[1].value = 0

----------------------------------------------------------------------------
(* C20 *)

\* The number the decimal digits write.
PlaceValue(t) ==
  SumSeq([i \in 1..Len(t) |-> DigitVal(t[i]) * 10 ^ (Len(t) - i)])

Returns(value) == ret[1] = [raises |-> FALSE, value |-> value]

\* C20: slice_num returns 0 when the range holds only whitespace or is
\* empty, also when it lies past the end of the line; the negated number
\* when the trimmed field is decimal digits followed by "-"; the number
\* when it is decimal digits only.
C20_SliceNumDecodes ==
  ret # <<>> =>
    LET t == Trimmed(args)
    IN  /\ t = <<>> => Returns(0)
        /\ AllDecimal(t) => Returns(PlaceValue(t))
        /\ (t # <<>> /\ t[Len(t)] = "-" /\ AllDecimal(SubSeq(t, 1, Len(t) - 1)))
             => Returns(0 - PlaceValue(SubSeq(t, 1, Len(t) - 1)))

\* "12-" read whole: -12.
C20_Witness ==
  /\ ret # <<>> /\ ret[1].value = 0 - 12
  /\ Trimmed(args) = <<"1", "2", "-">>
  /\ args.start = 1

----------------------------------------------------------------------------
(* Rounding: custom_round called on its own *)

\* The largest value rounded, in twentieths: 3.0.
MaxRound20 == 60

\* The largest integer rounded is 2^53 plus this.
MaxRoundOffset == 8

\* x is a number of twentieths, or the distance of an integer from 2^53.
InitRound ==
  /\ card_type = "REGULAR" /\ total_lines = 0 /\ file = <<>>
  /\ rt = RealtimeInit /\ pv = ValidatorInit
  /\ \/ \E x \in (0 - MaxRound20)..MaxRound20 :
          args = [large |-> FALSE, x |-> x]
     \/ \E d \in 0..MaxRoundOffset : args = [large |-> TRUE, x |-> d]
  /\ ret = <<>>

\* custom_round(x) is called and returns.
CallCustomRound ==
  /\ ret = <<>>
  /\ ret' = <<IF args.large THEN custom_round_from_2_53(args.x)
              ELSE custom_round(args.x)>>
  /\ UNCHANGED <<card_type, total_lines, file, rt, pv, args>>

NextRound == CallCustomRound

SpecRound == InitRound /\ [][NextRound]_vars

----------------------------------------------------------------------------
(* C21 *)

\* v truncated toward zero, v given in twentieths: the integer of the sign
\* of v whose distance from v is less than one.
Truncated(x20) ==
  CHOOSE i \in (0 - MaxRound20 - 1)..(MaxRound20 + 1) :
    /\ x20 >= 0 => 20 * i <= x20 /\ x20 < 20 * i + 20
    /\ x20 < 0 => 20 * i >= x20 /\ x20 > 20 * i - 20

\* The rule: i + 1 when v - i >= 0.5, i otherwise.
RoundsByRule ==
  (ret # <<>> /\ ~args.large) =>
    ret[1] = IF args.x - 20 * Truncated(args.x) >= 10
               THEN Truncated(args.x) + 1 ELSE Truncated(args.x)

\* C21: round_half_up(v) is i + 1 when v - i >= 0.5 and i otherwise, i being
\* v truncated toward zero (2.5 gives 3, 2.4 gives 2, -2.5 gives -2), and
\* every integer input is returned unchanged.
C21_RoundHalfUp ==
  /\ RoundsByRule
  /\ (ret # <<>> /\ ~args.large /\ args.x % 20 = 0) => 20 * ret[1] = args.x
  /\ (ret # <<>> /\ args.large) => ret[1] = args.x

----------------------------------------------------------------------------
(* C22 *)

IsPrefix(s, t) == Len(s) <= Len(t) /\ SubSeq(t, 1, Len(s)) = s

\* Every entry of before is still in after, at its place, with a set that
\* holds the old one (sets) or a sequence the old one starts (sequences).
EntriesGrow(before, after, sets) ==
  /\ Len(before) <= Len(after)
  /\ \A i \in 1..Len(before) :
       /\ after[i].k = before[i].k
       /\ IF sets THEN before[i].v \subseteq after[i].v
          ELSE IsPrefix(before[i].v, after[i].v)

\* C22: every step of a run leaves each customer's record-type set inside
\* the new set and each customer's sequence a prefix of the new sequence;
\* no entry is removed, replaced or reset, also when a customer record
\* repeats an identifier already seen.
C22_CustomerEntriesOnlyGrow ==
  [][ /\ EntriesGrow(rt.card_records, rt'.card_records, TRUE)
      /\ EntriesGrow(rt.customer_sequences, rt'.customer_sequences, FALSE)
      /\ EntriesGrow(pv.card_records, pv'.card_records, TRUE)
      /\ EntriesGrow(pv.customer_sequences, pv'.customer_sequences, FALSE)
    ]_vars

\* Customer A, a trailer, customer A again, a trailer: one entry, extended
\* by the second customer record.
C22_Witness ==
  /\ Len(rt.customer_sequences) = 1 /\ Len(pv.customer_sequences) = 1
  /\ rt.customer_sequences[1].v = <<T01, T04, T01, T04>>
  /\ pv.customer_sequences[1].v = <<T01, T04, T01, T04>>
  /\ rt.card_records[1].v = {T01, T04}

----------------------------------------------------------------------------
(* Twice: the same file is run a second time *)

\* Customer records of two customers, headers of two cards, a zero-amount
\* detail outside the window, a detail inside it, and a trailer.
TwiceLines ==
  { CustomerLine(CustA), CustomerLine(CustB),
    Header(CardX, 100, 5, 115, 0),
    Header(CardY, 0, 0, 0, 7),
    Detail(CardX, D1015, <<"s">>, NumText(0), CR),
    Detail(CardY, D1016, <<"t">>, NumText(30), DR),
    TrailerLine }

\* A faulty variant: the second run goes on with the collectors of the first.
RunAgain_collectors_kept ==
  /\ ret = <<>> /\ args = <<>>
  /\ "scan" \notin {rt.pc, pv.pc}
  /\ ret' = <<[rt |-> rt, pv |-> pv]>>
  /\ args' = [handed |-> 0]
  /\ rt' = [rt EXCEPT !.pc = "scan", !.processed = 0]
  /\ pv' = [pv EXCEPT !.pc = "scan", !.processed = 0]
  /\ UNCHANGED <<card_type, total_lines, file>>

\* Both engines are called again on the same file with the same parameters:
\* every collector is a local of the call and starts empty.  ret keeps what
\* the first call left, args counts the lines handed to the second.
RunAgain ==
  /\ ret = <<>> /\ args = <<>>
  /\ "scan" \notin {rt.pc, pv.pc}
  /\ ret' = <<[rt |-> rt, pv |-> pv]>>
  /\ args' = [handed |-> 0]
  /\ rt' = RealtimeInit
  /\ pv' = ValidatorInit
  /\ UNCHANGED <<card_type, total_lines, file>>

\* The second run is handed the next line of the file.
ReadAgain ==
  /\ ret # <<>> /\ args.handed < Len(file)
  /\ "scan" \in {rt.pc, pv.pc}
  /\ RealtimeLine(file[args.handed + 1])
  /\ ValidatorLine(file[args.handed + 1])
  /\ args' = [handed |-> args.handed + 1]
  /\ UNCHANGED <<card_type, total_lines, file, ret>>

\* The second run reaches the end of the file.
EndAgain ==
  /\ ret # <<>> /\ args.handed = total_lines
  /\ "scan" \in {rt.pc, pv.pc}
  /\ rt' = IF rt.pc = "scan"
             THEN realtime_finish(rt, card_type, total_lines) ELSE rt
  /\ pv' = IF pv.pc = "scan" THEN validator_finish(pv, card_type) ELSE pv
  /\ UNCHANGED <<card_type, total_lines, file, args, ret>>

NextTwice ==
  \/ ret = <<>> /\ (ReadLine(TwiceLines) \/ EndOfStream)
  \/ RunAgain
  \/ ReadAgain
  \/ EndAgain

SpecTwice == Init /\ [][NextTwice]_vars

----------------------------------------------------------------------------
(* C23 *)

\* The values in the order in which each is first met.
RECURSIVE FirstOnes(_)
FirstOnes(values) ==
  IF values = <<>> THEN <<>>
  ELSE LET rest == FirstOnes(Front(values))
       IN  IF \E i \in 1..Len(rest) : rest[i] = Last(values)
             THEN rest ELSE Append(rest, Last(values))

\* Field (start, end) of each record of f of the given type, in file order.
RECURSIVE FieldsOf(_, _, _, _)
FieldsOf(f, type, start, end) ==
  IF f = <<>> THEN <<>>
  ELSE (IF RecordTypeOf(Head(f)) = type
          THEN <<slice_str(Head(f), start, end)>> ELSE <<>>)
         \o FieldsOf(Tail(f), type, start, end)

\* What a run hands back: the seven categories, or that it failed.
Outcome(e) ==
  IF e.pc = "done"
    THEN <<e.validations, e.filtered, e.structure_results,
           e.duplicate_transactions, e.zero_amount_transactions,
           e.tot_payment_results, e.sequence_results>>
    ELSE <<e.pc>>

\* The reports of a finished run list their subjects as first met.
ReportsInFirstOrder(e, target, dated) ==
  e.pc = "done" =>
    LET customers == FirstOnes(FieldsOf(file, T01, 3, 18))
        cards == FirstOnes(FieldsOf(file, target, 28, 43))
        values == DetailValues(file)
        repeated == SelectSeq(FirstOnes(values),
                              LAMBDA v : Occurrences(values, v) > 1)
    IN  /\ [i \in 1..Len(e.structure_results) |->
              e.structure_results[i].customer] = customers
        /\ [i \in 1..Len(e.sequence_results) |->
              e.sequence_results[i].customer] = customers
        /\ [i \in 1..Len(e.tot_payment_results) |->
              e.tot_payment_results[i].card] = cards
        /\ RowValues(e.duplicate_transactions, dated) = repeated

----------------------------------------------------------------------------
(* C24 *)

\* The rows of a filtered or zero-amount list with their dates as text.
RECURSIVE DatesShown(_, _, _)
DatesShown(rows, dated, zero) ==
  IF rows = <<>> THEN <<>>
  ELSE <<IF zero
           THEN [Head(rows) EXCEPT !.posting_date = Shown(@, dated)]
           ELSE [Head(rows) EXCEPT !.posting = Shown(@, dated)]>>
         \o DatesShown(Tail(rows), dated, zero)

Counts(rows) == [i \in 1..Len(rows) |-> rows[i].count]

TrackedCounts(tracker) == [i \in 1..Len(tracker) |-> tracker[i].v]

\* C24: for every file and card type the class-based engine and the
\* streaming engine, run side by side record by record, agree on the
\* current customer, the open block, the running sums and the accumulated
\* maps, and on the rows of the seven reports (dates compared by value).
C24_EnginesAgree ==
  /\ pv.pc = rt.pc /\ pv.processed = rt.processed
  /\ pv.current_customer = rt.current_customer
  /\ pv.current_card = rt.current_card
  /\ pv.current_header = rt.current_header
  /\ pv.current_stats = rt.current_stats
  /\ pv.card_records = rt.card_records
  /\ pv.customer_sequences = rt.customer_sequences
  /\ pv.card_tot_payment = rt.card_tot_payment
  /\ pv.card_transactions = rt.card_transactions
  /\ KeyValues(pv.transaction_tracker, TRUE)
       = KeyValues(rt.transaction_tracker, FALSE)
  /\ TrackedCounts(pv.transaction_tracker)
       = TrackedCounts(rt.transaction_tracker)
  /\ pv.validations = rt.validations
  /\ DatesShown(pv.filtered, TRUE, FALSE) = DatesShown(rt.filtered, FALSE, FALSE)
  /\ DatesShown(pv.zero_amount_transactions, TRUE, TRUE)
       = DatesShown(rt.zero_amount_transactions, FALSE, TRUE)
  /\ pv.structure_results = rt.structure_results
  /\ RowValues(pv.duplicate_transactions, TRUE)
       = RowValues(rt.duplicate_transactions, FALSE)
  /\ Counts(pv.duplicate_transactions) = Counts(rt.duplicate_transactions)
  /\ pv.tot_payment_results = rt.tot_payment_results
  /\ pv.sequence_results = rt.sequence_results

----------------------------------------------------------------------------
(* C25 *)

\* The aggregated list of the open block's card.
OpenList(e) == DictGet(e.card_transactions, e.current_card[1], <<>>)

CreditsOf(list) ==
  SumSeq([i \in 1..Len(list) |->
           IF list[i].direction = CR THEN list[i].amount ELSE 0])

\* A CR detail record was read after the latest target header.
CreditSinceHeader(e, target) ==
  LET pos == HeaderPositions(LinesRead(e), target)
  IN  \E n \in (pos[Len(pos)] + 1)..e.processed : IsDetailOf(file[n], CR)

OpenListFollowsBlock(e, target) ==
  (e.pc = "scan" /\ e.current_header # <<>>) =>
    /\ CreditsOf(OpenList(e)) = StatOf(e, CR)
    /\ (\E i \in 1..Len(OpenList(e)) : OpenList(e)[i].direction = CR)
         <=> CreditSinceHeader(e, target)

\* C25: while a card block is open, whatever its header's card identifier
\* field holds, the CR amounts in the aggregated list of the block's card
\* add up to the block's CR running sum, and the list holds a CR entry
\* exactly when a CR detail record was read since the header.
C25_OpenListFollowsBlock ==
  /\ OpenListFollowsBlock(rt, RealtimeTarget)
  /\ OpenListFollowsBlock(pv, ValidatorTarget)

----------------------------------------------------------------------------
(* C26 *)

\* What belongs to the open block and to the validation of blocks.
BlockState(e) ==
  <<e.current_header, e.current_card, e.current_stats, e.validations,
    e.card_transactions, e.card_tot_payment>>

\* Engine e, whose target header type is 02, is handed a customer record
\* or a trailer and keeps everything of the block.
BlockOutlivesRecord(e, e2, target) ==
  (target = T02 /\ Scanned(e, e2) /\ RecordTypeOf(LineNow) \in {T01, T04})
    => BlockState(e2) = BlockState(e)

\* Engine e, whose target header type is 02, is handed a detail record
\* while a block is open: the amount goes to that block.
DetailJoinsOpenBlock(e, e2, target) ==
  (target = T02 /\ Scanned(e, e2) /\ RecordTypeOf(LineNow) = T03
     /\ e.current_header # <<>>)
    => /\ e2.current_header = e.current_header
       /\ e2.validations = e.validations
       /\ StatOf(e2, DR) = StatOf(e, DR) + Added(LineNow, DR)
       /\ StatOf(e2, CR) = StatOf(e, CR) + Added(LineNow, CR)

\* C26: with target header type 02 a trailer record and a customer record
\* leave the open block, its header fields, its two running sums, the
\* validations list and the payment aggregates as they were, so a detail
\* record read after them and before the next header is added to the block
\* that was open.
C26_OnlyHeaderClosesBlock ==
  [][ /\ BlockOutlivesRecord(rt, rt', RealtimeTarget)
      /\ BlockOutlivesRecord(pv, pv', ValidatorTarget)
      /\ DetailJoinsOpenBlock(rt, rt', RealtimeTarget)
      /\ DetailJoinsOpenBlock(pv, pv', ValidatorTarget)
    ]_vars

\* Header X, a trailer, a customer record, then a debit of 30: the block of
\* X is open and holds the 30.
C26_Witness ==
  /\ card_type = "REGULAR" /\ Len(file) = 4
  /\ RecordTypeOf(file[1]) = T02 /\ RecordTypeOf(file[2]) = T04
  /\ RecordTypeOf(file[3]) = T01 /\ RecordTypeOf(file[4]) = T03
  /\ rt.pc = "scan" /\ pv.pc = "scan"
  /\ rt.current_header # <<>> /\ rt.current_header[1].card = CardX
  /\ pv.current_header # <<>> /\ pv.current_header[1].card = CardX
  /\ StatOf(rt, DR) = 30 /\ StatOf(pv, DR) = 30
  /\ rt.validations = <<>>

----------------------------------------------------------------------------
(* C27 *)

\* The codes of the records of f read while customer is the current
\* customer, in file order; current is the current customer before f.
RECURSIVE CodesWhile(_, _, _)
CodesWhile(f, current, customer) ==
  IF f = <<>> THEN <<>>
  ELSE LET type == RecordTypeOf(Head(f))
           now == IF type = T01 THEN <<slice_str(Head(f), 3, 18)>>
                  ELSE current
       IN  (IF now = <<customer>> /\ type \in {T01, T02, T03, T04}
              THEN <<type>> ELSE <<>>)
             \o CodesWhile(Tail(f), now, customer)

EntriesAreRecordsRead(e) ==
  e.pc \in {"scan", "done"} =>
    /\ Len(e.card_records) = Len(e.customer_sequences)
    /\ \A i \in 1..Len(e.customer_sequences) :
         LET codes == e.customer_sequences[i].v
         IN  /\ e.card_records[i].k = e.customer_sequences[i].k
             /\ e.card_records[i].v = {codes[n] : n \in 1..Len(codes)}
             /\ codes # <<>> /\ codes[1] = T01
             /\ codes = CodesWhile(LinesRead(e), <<>>,
                                   e.customer_sequences[i].k)

\* C27: at every point of a run, for every customer identifier that has
\* an entry, the blank one included, the record-type set is the set of the
\* codes of the sequence, the sequence starts with 01, and the sequence is
\* the codes of the 01, 02, 03 and 04 records read while that customer was
\* the current customer, in file order.
C27_EntriesAreRecordsRead ==
  EntriesAreRecordsRead(rt) /\ EntriesAreRecordsRead(pv)

====
